---- MODULE Spec2Model ----
(***************************************************************************)
(* Session orchestration core of the Major chat agent                      *)
(* (src/major/src/major/server.py): SessionEventBus, send_message,         *)
(* _process_session_messages and the session_events stream.                *)
(*                                                                         *)
(* Scheduling.  Everything runs on one asyncio event loop.  A coroutine    *)
(* keeps the loop until it suspends.  The awaits on the event bus never    *)
(* suspend: the bus lock is never held across a suspension (so acquire     *)
(* always takes its fast path) and the asyncio.Queue objects are unbounded *)
(* (so put returns at once).  The suspension points are therefore the      *)
(* start of a created task, the wait for the next engine event, the yields *)
(* of the stream generator and its wait on the subscriber channel.  The    *)
(* variable `running` names the worker task that holds the loop, if any.    *)
(***************************************************************************)
EXTENDS Integers, Sequences, FiniteSets, TLC

\* ---------------------------------------------------------------- bounds
MaxMessages == 2          \* send_message calls in a behaviour
MaxStreamMessages == 1    \* send_message calls in a behaviour with streams
MaxEngineEvents == 1      \* SDK messages the engine yields in a behaviour
MaxLines == 3             \* lines of a transcript file
MaxTurnEvents == 3        \* SDK messages the engine yields for one message
MaxRunMessages == 3       \* send_message calls to the session of a queued run
MaxWrites == 2            \* lines the engine appends to a transcript
MaxTime == 2              \* readings of the clock
MaxPending == 3        \* pending files written
MaxChatRuns == 3       \* calls of chat_send

Sessions == {"s1", "s2"}
SubIds == {1, 2}          \* the session_events streams
NoMsg == [id |-> 0, ctx |-> "none"]
NoId == "none"
EngineId == "eng-42"
Idle == <<>>              \* no worker task holds the event loop

\* MessageContext: nothing attached, or sourceIds (source-grounded chat)
Contexts == {"none", "sourceIds"}

\* keyword parameters accepted by SessionManager.update_session
UpdateSessionParams == {"title", "archived", "project_id", "entity_type", "entity_id"}

\* ---------------------------------------------------------------- helpers
RECURSIVE Remove(_, _)
\* list.remove(x): drop the first occurrence
Remove(list, x) ==
  IF list = <<>> THEN <<>>
  ELSE IF Head(list) = x THEN Tail(list)
  ELSE <<Head(list)>> \o Remove(Tail(list), x)

\* SessionEvent; mid is the message the event belongs to and (history)
\* timestamp is the position of the event among the events published to its
\* session, stamped by PublishAll
SessionEvent(type, mid, text) == [type |-> type, mid |-> mid, text |-> text, timestamp |-> 0]

\* ---------------------------------------------------------------- state
VARIABLES
  subscribers,     \* SessionEventBus._subscribers: session -> list of channels
  message_queues,  \* SessionEventBus._message_queues: session -> queue
  processing,      \* SessionEventBus._processing: session -> bool
  chan,            \* content of each subscriber's asyncio.Queue
  tasks,           \* worker tasks made by asyncio.create_task, per session
  running,         \* the worker task holding the event loop, Idle if none
  gens,            \* the session_events generators
  frames,          \* connected, history and event frames each generator has yielded
  metadata,        \* sessions.json: session id -> record
  published,       \* history: number of events published, per session
  accepted,        \* history: number of messages accepted by queue_message, per session
  engine_calls,    \* history: agent.send_message calls, per session
  engine_events,   \* SDK messages yielded so far
  session_files,   \* <workspace>/.chelle/sessions: name of <name>.jsonl -> the
                   \* transcript it is or links to
  transcripts,     \* the SDK directory ~/.claude/projects/<workspace>: the same
  reconciled,      \* history: <<session id, engine id>> of the ResultMessages handled
  jsonl,           \* the lines of a transcript file <id>.jsonl
  history,         \* what get_history has returned for it, NotRead before the call
  clock,           \* what datetime.utcnow() returns
  pending_dir,     \* worker.py: the files of .chelle/pending, oldest first
  loop,            \* worker.py: worker_loop, its position and its locals
  processed,       \* history: what worker_loop did with each pending entry
  running_sessions, \* _running_sessions of chat_send: session id -> task
  chat_runs        \* the run_chat tasks chat_send has created

vars == <<subscribers, message_queues, processing, chan, tasks, running, gens,
          frames, metadata, published, accepted, engine_calls, engine_events,
          session_files, transcripts, reconciled, jsonl, history, clock,
          pending_dir, loop, processed, running_sessions, chat_runs>>

\* the transcript reader: the file and the result of get_history
reader == <<jsonl, history>>

\* the session registry: sessions.json and the two transcript directories
registry == <<metadata, session_files, transcripts, reconciled>>

bus == <<subscribers, message_queues, processing, chan>>

\* the file-queue worker of worker.py
filequeue == <<pending_dir, loop, processed>>

\* the background runs of chat_send
chatsend == <<running_sessions, chat_runs>>

\* what the session orchestrator and the transcript reader leave alone
apart == <<clock, filequeue, chatsend>>

\* a worker task: its position, its locals, and (history) for the message it is
\* on the types of the events it has published and whether the engine raised,
\* for the run the session id of the last ResultMessage, for the message the
\* payloads of the text_delta events published
NoTask == [pc |-> "none", msg |-> NoMsg, current_text |-> <<>>, sdk_session_id |-> NoId,
           exc |-> FALSE, turn |-> <<>>, raised |-> FALSE, last_result |-> NoId,
           deltas |-> <<>>]
\* a stream generator: its position, its session, whether its last frame was a
\* keepalive, and (history) the numbers of events published and of messages
\* accepted when it subscribed
NoGen == [pc |-> "none", session |-> "s1", keepalive |-> FALSE, from |-> 0, after |-> 0]

\* SessionMessage
SessionMessage(role, content, tool_name) ==
  [role |-> role, content |-> content, tool_name |-> tool_name]
NoTool == "none"
\* get_history has not been called
NotRead == <<SessionMessage("not read", <<>>, NoTool)>>

\* worker_loop has fetched nothing
NoPending == [id |-> 0, session_id |-> "none", raises |-> FALSE]
\* the clock reads 1, no file is pending, worker_loop is about to poll, and
\* chat_send has not been called
InitApart ==
  /\ clock = 1
  /\ pending_dir = <<>>
  /\ loop = [pc |-> "poll", pending |-> NoPending]
  /\ processed = <<>>
  /\ running_sessions = <<>>
  /\ chat_runs = <<>>

Init ==
  /\ subscribers = <<>>
  /\ message_queues = <<>>
  /\ processing = <<>>
  /\ chan = [u \in SubIds |-> <<>>]
  /\ tasks = [s \in Sessions |-> <<>>]
  /\ running = Idle
  /\ gens = [u \in SubIds |-> NoGen]
  /\ frames = [u \in SubIds |-> <<>>]
  /\ metadata = <<>>
  /\ published = [s \in Sessions |-> 0]
  /\ accepted = [s \in Sessions |-> 0]
  /\ engine_calls = [s \in Sessions |-> <<>>]
  /\ engine_events = 0
  /\ session_files = <<>>
  /\ transcripts = <<>>
  /\ reconciled = {}
  /\ jsonl = <<>>
  /\ history = NotRead
  /\ InitApart

\* ---------------------------------------------------------------- SessionEventBus
\* self._subscribers.get(session_id, [])
SubscribersOf(subs, s) == IF s \in DOMAIN subs THEN subs[s] ELSE <<>>

\* subscribe: self._subscribers[session_id].append(queue)
subscribe(subs, s, u) ==
  [x \in DOMAIN subs \cup {s} |-> IF x = s THEN Append(SubscribersOf(subs, s), u) ELSE subs[x]]

\* mutant: the subscriber list of the session is dropped
unsubscribe_session(subs, s, u) == [x \in DOMAIN subs \ {s} |-> subs[x]]

\* unsubscribe: remove the queue, drop the key when the list is empty
unsubscribe(subs, s, u) ==
  IF s \in DOMAIN subs
  THEN LET rest == Remove(subs[s], u)
       IN IF rest = <<>>
          THEN [x \in DOMAIN subs \ {s} |-> subs[x]]
          ELSE [subs EXCEPT ![s] = rest]
  ELSE subs

RECURSIVE PutAll(_, _, _)
\* for queue in subscribers: await queue.put(event)
PutAll(ch, list, ev) ==
  IF list = <<>> THEN ch
  ELSE PutAll([ch EXCEPT ![Head(list)] = Append(@, ev)], Tail(list), ev)

\* mutant: only the first subscriber of the session gets the event
publish_first_only(ch, subs, s, ev) ==
  IF SubscribersOf(subs, s) = <<>> THEN ch
  ELSE PutAll(ch, <<Head(SubscribersOf(subs, s))>>, ev)

\* mutant: the event goes to the subscribers of every session
publish_broadcast(ch, subs, s, ev) ==
  [u \in DOMAIN ch |->
     IF \E x \in DOMAIN subs : \E i \in DOMAIN subs[x] : subs[x][i] = u
     THEN Append(ch[u], ev) ELSE ch[u]]

\* publish: the channels after the event has been put on every subscriber
publish(ch, subs, s, ev) == PutAll(ch, SubscribersOf(subs, s), ev)

\* mutant: the message is put on a fresh queue
queue_message_fresh(mq, s, m) == [x \in DOMAIN mq \cup {s} |-> IF x = s THEN <<m>> ELSE mq[x]]

\* queue_message: create the queue lazily, put (message, context)
queue_message(mq, s, m) ==
  [x \in DOMAIN mq \cup {s} |-> IF x = s
                                THEN (IF s \in DOMAIN mq THEN Append(mq[s], m) ELSE <<m>>)
                                ELSE mq[x]]

\* get_next_message: None (NoMsg) when there is no queue or it is empty
get_next_message(mq, s) ==
  IF s \notin DOMAIN mq THEN NoMsg
  ELSE IF mq[s] = <<>> THEN NoMsg
  ELSE Head(mq[s])

\* the queue after get_nowait
after_get(mq, s) ==
  IF s \in DOMAIN mq /\ mq[s] # <<>> THEN [mq EXCEPT ![s] = Tail(@)] ELSE mq

\* mutant: the flag is never seen set
is_processing_never(p, s) == FALSE

\* is_processing: self._processing.get(session_id, False)
is_processing(p, s) == IF s \in DOMAIN p THEN p[s] ELSE FALSE

\* set_processing: self._processing[session_id] = value
set_processing(p, s, v) == [x \in DOMAIN p \cup {s} |-> IF x = s THEN v ELSE p[x]]

\* ---------------------------------------------------------------- engine (external)
TextBlock(text) == [type |-> "text", text |-> text]
ToolUseBlock == [type |-> "tool_use", text |-> <<>>]

\* the SDK messages; a StreamEvent has the type of the raw stream event and
\* its delta or content block as content
AssistantMessage(blocks) ==
  [kind |-> "AssistantMessage", type |-> "none", content |-> blocks, session_id |-> NoId]
StreamEvent(type, blocks) ==
  [kind |-> "StreamEvent", type |-> type, content |-> blocks, session_id |-> NoId]
ResultMessage(session_id) ==
  [kind |-> "ResultMessage", type |-> "none", content |-> <<>>, session_id |-> session_id]

\* the SDK messages agent.send_message may yield next
EngineMessages ==
  { AssistantMessage(<<TextBlock(<<"a">>), ToolUseBlock>>),
    StreamEvent("content_block_delta", <<TextBlock(<<"c">>)>>),
    ResultMessage(EngineId) }

\* the SDK messages of a reply "a", a tool call, and a second reply "bc": the
\* streamed pieces, the tool call events and the complete messages.  The
\* characters stand for the distinct pieces of text of the reply.
TurnMessages ==
  EngineMessages \cup
  { StreamEvent("content_block_delta", <<TextBlock(<<"a">>)>>),
    StreamEvent("content_block_start", <<ToolUseBlock>>),
    StreamEvent("content_block_stop", <<>>),
    AssistantMessage(<<TextBlock(<<"a">>)>>),
    AssistantMessage(<<TextBlock(<<"b", "c">>)>>) }

\* git_commit: True, False (CalledProcessError is caught), or another exception
\* of subprocess.run, which it does not catch
CommitOutcomes == {"ok", "failed", "raised"}

RECURSIVE BlockEvents(_, _, _)
\* the AssistantMessage branch: the events published for the blocks, in order
BlockEvents(blocks, current_text, mid) ==
  IF blocks = <<>> THEN <<>>
  ELSE LET b == Head(blocks)
           delta == IF b.type = "text"
                    THEN SubSeq(b.text, Len(current_text) + 1, Len(b.text))
                    ELSE <<>>
           now == IF delta # <<>> THEN b.text ELSE current_text
           mine == (IF delta # <<>> THEN <<SessionEvent("text_delta", mid, delta)>> ELSE <<>>)
                   \o (IF b.type = "tool_use" THEN <<SessionEvent("tool_use", mid, <<>>)>>
                       ELSE <<>>)
       IN mine \o BlockEvents(Tail(blocks), now, mid)

RECURSIVE BlockText(_, _)
\* current_text after the blocks of an AssistantMessage
BlockText(blocks, current_text) ==
  IF blocks = <<>> THEN current_text
  ELSE LET b == Head(blocks)
           delta == IF b.type = "text"
                    THEN SubSeq(b.text, Len(current_text) + 1, Len(b.text))
                    ELSE <<>>
       IN BlockText(Tail(blocks), IF delta # <<>> THEN b.text ELSE current_text)

\* the events the worker publishes for one SDK message
EventsFor(m, current_text, mid) ==
  IF m.kind = "AssistantMessage" THEN BlockEvents(m.content, current_text, mid)
  ELSE IF m.kind = "StreamEvent"
  THEN IF m.type = "content_block_delta"
       THEN <<SessionEvent("text_delta", mid, m.content[1].text)>>
       ELSE IF m.type = "content_block_start"
       THEN IF m.content[1].type = "tool_use" THEN <<SessionEvent("tool_use", mid, <<>>)>>
            ELSE <<>>
       ELSE IF m.type = "content_block_stop" THEN <<SessionEvent("tool_use", mid, <<>>)>>
       ELSE <<>>
  ELSE <<>>

RECURSIVE PublishAll(_, _, _, _, _)
\* successive publish calls; the n-th event published to the session is stamped n
PublishAll(ch, subs, s, evs, n) ==
  IF evs = <<>> THEN ch
  ELSE PublishAll(publish(ch, subs, s, [Head(evs) EXCEPT !.timestamp = n + 1]),
                  subs, s, Tail(evs), n + 1)

\* the types of a sequence of events
Types(evs) == [i \in 1..Len(evs) |-> evs[i].type]

\* event_bus.publish(session_id, ...) called for each of evs
Emit(s, evs) ==
  /\ chan' = PublishAll(chan, subscribers, s, evs, published[s])
  /\ published' = [published EXCEPT ![s] = @ + Len(evs)]

\* ---------------------------------------------------------------- SessionManager
Titles == {"t1", "t2"}
NoTitle == "none"
\* None, for project_id, entity_type and entity_id
NoValue == "none"
WorkspacePath == "/workspace"

\* SessionMetadata
SessionMetadata(session_id, title, archived, project_id, entity_type, entity_id, created_at, updated_at) ==
  [session_id |-> session_id, title |-> title, archived |-> archived,
   project_id |-> project_id, entity_type |-> entity_type, entity_id |-> entity_id,
   created_at |-> created_at, updated_at |-> updated_at]
\* get_session returns None
NoSession ==
  SessionMetadata("none", "no session", FALSE, NoValue, NoValue, NoValue, 0, 0)

\* lines 211-214: the record update_session makes for a session without one;
\* a key the record lacks is written as what meta.get gives for it
NewRecord(now) ==
  [title |-> NoTitle, archived |-> FALSE, project_id |-> NoValue, entity_type |-> NoValue,
   entity_id |-> NoValue, created_at |-> now, updated_at |-> now,
   workspace_path |-> WorkspacePath]

\* lines 216-225: the fields that are not None are set; kw maps the names of
\* these fields to their values
Supplied(kw, old) == [f \in DOMAIN old |-> IF f \in DOMAIN kw THEN kw[f] ELSE old[f]]

update_session_Recreate(meta, id, kw, now) ==
  [x \in DOMAIN meta \cup {id} |->
     IF x = id THEN Supplied(kw, NewRecord(now)) ELSE meta[x]]

update_session_Restamp(meta, id, kw, now) ==
  [x \in DOMAIN meta \cup {id} |->
     IF x = id
     THEN [Supplied(kw, IF id \in DOMAIN meta THEN meta[id] ELSE NewRecord(now))
             EXCEPT !.created_at = now, !.updated_at = now]
     ELSE meta[x]]

\* update_session: make the record if there is none, set the fields given,
\* stamp updated_at and workspace_path, save
update_session(meta, id, kw, now) ==
  [x \in DOMAIN meta \cup {id} |->
     IF x = id
     THEN [Supplied(kw, IF id \in DOMAIN meta THEN meta[id] ELSE NewRecord(now))
             EXCEPT !.updated_at = now, !.workspace_path = WorkspacePath]
     ELSE meta[x]]

create_session_Nothing(meta, id, now) == meta

\* create_session: update_session without fields
create_session(meta, id, now) == update_session(meta, id, <<>>, now)

\* Path.exists() of <id>.jsonl: a file, or a link whose target is there
Exists(files, id) ==
  /\ id \in DOMAIN files
  /\ files[id] \in DOMAIN files
  /\ files[files[id]] = files[id]

get_session_RecordOnly(meta, files, id, now) ==
  IF id \notin DOMAIN meta THEN NoSession
  ELSE SessionMetadata(id, meta[id].title, meta[id].archived, meta[id].project_id,
                       meta[id].entity_type, meta[id].entity_id,
                       meta[id].created_at, meta[id].updated_at)

\* get_session: None without record and without transcript in the SDK
\* directory, otherwise the record with defaults for what it lacks
get_session(meta, files, id, now) ==
  IF ~Exists(files, id) /\ id \notin DOMAIN meta THEN NoSession
  ELSE IF id \in DOMAIN meta
  THEN SessionMetadata(id, meta[id].title, meta[id].archived, meta[id].project_id,
                       meta[id].entity_type, meta[id].entity_id,
                       meta[id].created_at, meta[id].updated_at)
  ELSE SessionMetadata(id, NoTitle, FALSE, NoValue, NoValue, NoValue, now, now)

\* a dict or directory without the entry id
Del(f, id) == [x \in DOMAIN f \ {id} |-> f[x]]

\* delete_session, lines 240-243: the record is removed
delete_record(meta, id) == Del(meta, id)

\* delete_session, lines 245-251: <id>.jsonl is unlinked if it is a file or a
\* link, broken or not; the target of a link stays
delete_file(files, id) == IF id \in DOMAIN files THEN Del(files, id) ELSE files

\* list_sessions, lines 112-124: a *.jsonl whose stat() finds nothing is a
\* broken link and is removed
unlink_broken(files) == [x \in {y \in DOMAIN files : Exists(files, y)} |-> files[x]]

\* get_history, lines 264-268: the transcript <id>.jsonl of the SDK directory,
\* nothing if there is no such file
NoHistory == "empty"
get_history(files, id) == IF Exists(files, id) THEN files[id] ELSE NoHistory

\* ---------------------------------------------------------------- get_history
\* Strings are sequences of characters.  A line of the transcript is blank,
\* not JSON, or an entry; the content of an entry is a string (str # NoStr)
\* or a list of blocks.
NL == "\n"
NoStr == <<"no string">>
Whitespace == {" ", NL}
BlankLine == [kind |-> "blank", type |-> "none", isMeta |-> FALSE, str |-> NoStr, blocks |-> <<>>]
BadLine == [kind |-> "not json", type |-> "none", isMeta |-> FALSE, str |-> NoStr, blocks |-> <<>>]
Entry(type, isMeta, str, blocks) ==
  [kind |-> "json", type |-> type, isMeta |-> isMeta, str |-> str, blocks |-> blocks]
Text(text) ==
  [type |-> "text", text |-> text, name |-> NoTool, input |-> "none",
   content |-> <<>>, parts |-> <<>>]
\* a list item that is a bare string, not a block
Str(text) ==
  [type |-> "str", text |-> text, name |-> NoTool, input |-> "none",
   content |-> <<>>, parts |-> <<>>]
ToolUse(name, input) ==
  [type |-> "tool_use", text |-> <<>>, name |-> name, input |-> input,
   content |-> <<>>, parts |-> <<>>]
\* a tool_result block whose content is a string
ToolResult(content) ==
  [type |-> "tool_result", text |-> <<>>, name |-> NoTool, input |-> "none",
   content |-> content, parts |-> <<>>]
\* a tool_result block whose content is a list of text blocks
ToolResultList(parts) ==
  [type |-> "tool_result", text |-> <<>>, name |-> NoTool, input |-> "none",
   content |-> <<>>, parts |-> parts]

\* line 347: str(result_content)[:1000]
ResultLimit == 1000

\* a tool result one character longer than the limit
LongResult == [i \in 1..(ResultLimit + 1) |-> "o"]

IsBlankChar(c) == c \in Whitespace
IsTextChar(c) == c \notin Whitespace
\* content.strip()
IsBlank(str) == SelectSeq(str, IsTextChar) = <<>>

RECURSIVE Join(_, _)
\* sep.join(parts)
Join(parts, sep) ==
  IF parts = <<>> THEN <<>>
  ELSE IF Len(parts) = 1 THEN parts[1]
  ELSE parts[1] \o sep \o Join(Tail(parts), sep)

\* json.dumps(block.get('input', {}))
json_dumps(input) == <<"{", input, "}">>

Take_All(s, n) == s

\* s[:n]
Take(s, n) == SubSeq(s, 1, IF Len(s) < n THEN Len(s) ELSE n)

IsTextBlock(b) == b.type = "text"

RECURSIVE Texts(_)
\* text_parts of a list of blocks
Texts(blocks) ==
  IF blocks = <<>> THEN <<>>
  ELSE (IF IsTextBlock(Head(blocks)) THEN <<Head(blocks).text>> ELSE <<>>)
       \o Texts(Tail(blocks))

UserTexts_BlocksOnly(blocks) == Texts(blocks)

RECURSIVE UserTexts(_)
\* lines 303-308: text_parts of a user entry, text blocks and bare strings
UserTexts(blocks) ==
  IF blocks = <<>> THEN <<>>
  ELSE (IF Head(blocks).type \in {"text", "str"} THEN <<Head(blocks).text>> ELSE <<>>)
       \o UserTexts(Tail(blocks))

\* lines 341-346: result_content, a list joined with newlines
ResultContent(block) ==
  IF block.parts # <<>> THEN Join(block.parts, <<NL>>) ELSE block.content

RECURSIVE ToolMessages(_)
\* lines 322-348: the messages appended while the blocks of an assistant
\* entry are walked
ToolMessages(blocks) ==
  IF blocks = <<>> THEN <<>>
  ELSE (IF Head(blocks).type = "tool_use"
        THEN <<SessionMessage("tool_use", json_dumps(Head(blocks).input), Head(blocks).name)>>
        ELSE IF Head(blocks).type = "tool_result"
        THEN <<SessionMessage("tool_result", Take(ResultContent(Head(blocks)), ResultLimit), NoTool)>>
        ELSE <<>>)
       \o ToolMessages(Tail(blocks))

\* lines 292-354: the messages an entry that is not skipped adds
ParseEntry(line) ==
  IF line.type \in {"human", "user"}
  THEN IF line.str # NoStr
       THEN IF IsBlank(line.str) THEN <<>>
            ELSE <<SessionMessage("user", line.str, NoTool)>>
       ELSE IF UserTexts(line.blocks) # <<>>
            THEN <<SessionMessage("user", Join(UserTexts(line.blocks), <<NL>>), NoTool)>>
            ELSE <<>>
  ELSE IF line.type = "assistant"
  THEN (IF line.str = NoStr THEN ToolMessages(line.blocks) ELSE <<>>)
       \o (IF line.str = NoStr /\ Texts(line.blocks) # <<>>
           THEN <<SessionMessage("assistant", Join(Texts(line.blocks), <<NL>>), NoTool)>>
           ELSE <<>>)
  ELSE <<>>

ParseLine_KeepMeta(line) ==
  IF line.kind # "json" THEN <<>> ELSE ParseEntry(line)

\* lines 275-354: the messages one line of the file adds
ParseLine(line) ==
  IF line.kind # "json" THEN <<>>
  ELSE IF line.isMeta THEN <<>>
  ELSE ParseEntry(line)

RECURSIVE Parse(_)
\* lines 270-354: messages
Parse(lines) ==
  IF lines = <<>> THEN <<>> ELSE ParseLine(Head(lines)) \o Parse(Tail(lines))

\* lines 368-373, 383-387: flush pending_assistant_texts
Flush(pending) ==
  IF pending # <<>>
  THEN <<SessionMessage("assistant", Join(pending, <<NL, NL>>), NoTool)>>
  ELSE <<>>

\* mutant: the messages are returned as parsed
Consolidate_NoMerge(messages, pending) == messages

RECURSIVE Consolidate_ToolsLate(_, _)
\* mutant: tool messages wait with the assistant text of the turn
Consolidate_ToolsLate(messages, pending) ==
  IF messages = <<>> THEN pending
  ELSE IF Head(messages).role = "user"
  THEN pending \o <<Head(messages)>> \o Consolidate_ToolsLate(Tail(messages), <<>>)
  ELSE Consolidate_ToolsLate(Tail(messages), pending \o <<Head(messages)>>)

RECURSIVE Consolidate(_, _)
\* lines 362-389: consolidated, with pending_assistant_texts as pending
Consolidate(messages, pending) ==
  IF messages = <<>> THEN Flush(pending)
  ELSE IF Head(messages).role = "user"
  THEN Flush(pending) \o <<Head(messages)>> \o Consolidate(Tail(messages), <<>>)
  ELSE IF Head(messages).role = "assistant"
  THEN Consolidate(Tail(messages), Append(pending, Head(messages).content))
  ELSE <<Head(messages)>> \o Consolidate(Tail(messages), pending)

\* lines 270-389 on the lines of an existing, readable file
History(lines) == Consolidate(Parse(lines), <<>>)

\* the lines transcripts are made of
Lines ==
  { BlankLine, BadLine,
    Entry("user", FALSE, <<"q">>, <<>>),
    Entry("user", FALSE, <<" ">>, <<>>),
    Entry("human", FALSE, NoStr, <<Text(<<"q">>), Text(<<"r">>)>>),
    Entry("user", FALSE, NoStr, <<ToolResult(<<"o">>)>>),
    Entry("user", TRUE, <<"m">>, <<>>),
    Entry("assistant", FALSE, NoStr, <<Text(<<"a">>)>>),
    Entry("assistant", FALSE, NoStr, <<Text(<<"b">>), ToolUse("Read", "f"), Text(<<"c">>)>>),
    Entry("assistant", FALSE, NoStr, <<ToolUse("Bash", "g")>>),
    Entry("assistant", FALSE, NoStr, <<ToolResult(<<"o">>)>>),
    Entry("assistant", FALSE, <<"x">>, <<>>),
    Entry("system", FALSE, <<"s">>, <<>>),
    Entry("user", FALSE, NoStr, <<Str(<<"p">>), Text(<<"q">>)>>),
    Entry("assistant", TRUE, NoStr, <<Text(<<"n">>), ToolUse("Bash", "h")>>),
    Entry("assistant", FALSE, NoStr, <<ToolResult(LongResult)>>),
    Entry("assistant", FALSE, NoStr, <<ToolResultList(<< <<"o">>, <<"p">> >>)>>) }

RECURSIVE SeqsUpTo(_, _)
\* the sequences over S of length n or less
SeqsUpTo(S, n) ==
  IF n = 0 THEN {<<>>}
  ELSE SeqsUpTo(S, n - 1) \cup {Append(q, x) : q \in {r \in SeqsUpTo(S, n - 1) : Len(r) = n - 1}, x \in S}

\* a transcript file of MaxLines lines or less is there to be read
InitReader ==
  /\ subscribers = <<>>
  /\ message_queues = <<>>
  /\ processing = <<>>
  /\ chan = [u \in SubIds |-> <<>>]
  /\ tasks = [s \in Sessions |-> <<>>]
  /\ running = Idle
  /\ gens = [u \in SubIds |-> NoGen]
  /\ frames = [u \in SubIds |-> <<>>]
  /\ metadata = <<>>
  /\ published = [s \in Sessions |-> 0]
  /\ accepted = [s \in Sessions |-> 0]
  /\ engine_calls = [s \in Sessions |-> <<>>]
  /\ engine_events = 0
  /\ session_files = <<>>
  /\ transcripts = <<>>
  /\ reconciled = {}
  /\ jsonl \in SeqsUpTo(Lines, MaxLines)
  /\ history = NotRead
  /\ InitApart

\* get_history returns the history of the file, which is there and readable
GetHistory ==
  /\ history = NotRead
  /\ history' = History(jsonl)
  /\ UNCHANGED <<bus, tasks, running, gens, frames, published, accepted, engine_calls,
                 engine_events, registry, jsonl, apart>>

\* a line that is JSON but not an object (null, a number, a string, a list):
\* json.loads returns a value without .get, and line 284 raises AttributeError
ValueLine == [kind |-> "json value", type |-> "none", isMeta |-> FALSE, str |-> NoStr, blocks |-> <<>>]

\* an entry flagged as meta whose "message" is null: line 286 calls .get on it
\* and raises AttributeError before line 289 looks at the flag
MetaNullMessage ==
  [kind |-> "json null message", type |-> "user", isMeta |-> TRUE, str |-> NoStr, blocks |-> <<>>]

\* get_history has raised
Failed == <<SessionMessage("raised", <<>>, NoTool)>>

\* lines 272-389; the only exception caught around the loop is IOError
ReadLines(lines) ==
  IF \E i \in DOMAIN lines : lines[i].kind \in {"json value", "json null message"}
  THEN Failed
  ELSE History(lines)

\* the file <EngineId>.jsonl is missing or has MaxLines lines or less, which
\* may be blank, not JSON, JSON values, entries or a meta entry without message
InitInput ==
  /\ subscribers = <<>>
  /\ message_queues = <<>>
  /\ processing = <<>>
  /\ chan = [u \in SubIds |-> <<>>]
  /\ tasks = [s \in Sessions |-> <<>>]
  /\ running = Idle
  /\ gens = [u \in SubIds |-> NoGen]
  /\ frames = [u \in SubIds |-> <<>>]
  /\ metadata = <<>>
  /\ published = [s \in Sessions |-> 0]
  /\ accepted = [s \in Sessions |-> 0]
  /\ engine_calls = [s \in Sessions |-> <<>>]
  /\ engine_events = 0
  /\ session_files = <<>>
  /\ reconciled = {}
  /\ \/ transcripts = <<>> /\ jsonl = <<>>
     \/ transcripts = [x \in {EngineId} |-> EngineId]
        /\ jsonl \in SeqsUpTo(Lines \cup {ValueLine, MetaNullMessage}, MaxLines)
  /\ history = NotRead
  /\ InitApart

\* lines 264-389: get_history(workspace_path, EngineId); the file may be
\* unreadable (IOError)
ReadTranscript(io_error) ==
  /\ history = NotRead
  /\ history' = IF get_history(transcripts, EngineId) = NoHistory THEN <<>>
                ELSE IF io_error THEN <<>>
                ELSE ReadLines(jsonl)
  /\ UNCHANGED <<bus, tasks, running, gens, frames, published, accepted, engine_calls,
                 engine_events, registry, jsonl, apart>>

\* PATCH /sessions/{session_id}: update_session with the title of the request
PatchSession(id, title) ==
  /\ running = Idle
  /\ metadata' = update_session(metadata, id,
                                IF title # NoTitle THEN [title |-> title] ELSE <<>>, clock)
  /\ UNCHANGED <<bus, tasks, running, gens, frames, published, accepted, engine_calls,
                 engine_events, session_files, transcripts, reconciled, reader, apart>>

\* ---------------------------------------------------------------- send_message
\* asyncio.create_task(_process_session_messages(session_id, workspace_path))
create_task(ts, s) == [ts EXCEPT ![s] = Append(@, [NoTask EXCEPT !.pc = "created"])]

\* POST /sessions/{session_id}/messages
send_message(s, ctx) ==
  LET m == [id |-> accepted[s] + 1, ctx |-> ctx] IN
  /\ running = Idle
  /\ metadata' = IF get_session(metadata, transcripts, s, clock) = NoSession
                 THEN create_session(metadata, s, clock) ELSE metadata
  /\ message_queues' = queue_message(message_queues, s, m)
  /\ accepted' = [accepted EXCEPT ![s] = m.id]
  /\ Emit(s, <<SessionEvent("user_message", m.id, <<>>)>>)
  /\ tasks' = IF ~is_processing(processing, s) THEN create_task(tasks, s) ELSE tasks
  /\ UNCHANGED <<subscribers, processing, running, gens, frames, engine_calls, engine_events,
                 session_files, transcripts, reconciled, reader, apart>>

\* ---------------------------------------------------------------- _process_session_messages
IsTask(s, k) == k \in 1..Len(tasks[s])
Holds(s, k) == running = <<s, k>>

\* lines 1081-1085: resume the session when its transcript file exists
ResumeId(s) == IF s \in DOMAIN session_files THEN s ELSE NoId

\* mutant: the task does not check the flag before it sets it
WorkerGuard_NoCheck(s, k) ==
  /\ running = Idle
  /\ IsTask(s, k)
  /\ tasks[s][k].pc = "created"
  /\ processing' = set_processing(processing, s, TRUE)
  /\ tasks' = [tasks EXCEPT ![s][k].pc = "loop",
                             ![s][k].sdk_session_id = ResumeId(s)]
  /\ running' = <<s, k>>
  /\ UNCHANGED <<subscribers, message_queues, chan, gens, frames, metadata, published,
                 accepted, engine_calls, engine_events, session_files, transcripts, reconciled, reader, apart>>

\* lines 1073-1085: the guard, the flag, the resume identifier
WorkerGuard(s, k) ==
  /\ running = Idle
  /\ IsTask(s, k)
  /\ tasks[s][k].pc = "created"
  /\ IF is_processing(processing, s)
     THEN /\ tasks' = [tasks EXCEPT ![s][k].pc = "returned"]
          /\ UNCHANGED <<processing, running, apart>>
     ELSE /\ processing' = set_processing(processing, s, TRUE)
          /\ tasks' = [tasks EXCEPT ![s][k].pc = "loop",
                                     ![s][k].sdk_session_id = ResumeId(s)]
          /\ running' = <<s, k>>
  /\ UNCHANGED <<subscribers, message_queues, chan, gens, frames, metadata, published,
                 accepted, engine_calls, engine_events, session_files, transcripts, reconciled, reader, apart>>

\* lines 1090-1096: pop the next message or leave the loop
WorkerGetNext(s, k) ==
  LET result == get_next_message(message_queues, s) IN
  /\ Holds(s, k)
  /\ tasks[s][k].pc = "loop"
  /\ message_queues' = after_get(message_queues, s)
  /\ tasks' = [tasks EXCEPT ![s][k].pc = IF result = NoMsg THEN "drained" ELSE "context",
                             ![s][k].msg = result,
                             ![s][k].turn = <<>>,
                             ![s][k].raised = FALSE]
  /\ UNCHANGED <<subscribers, processing, chan, running, gens, frames, metadata, published,
                 accepted, engine_calls, engine_events, session_files, transcripts, reconciled, reader, apart>>

\* lines 1128-1131: with sourceIds the worker calls
\* session_manager.update_session(workspace_path, session_id, source_ids=...),
\* which raises TypeError unless update_session has that parameter
ContextRaises(ctx) == ctx = "sourceIds" /\ "source_ids" \notin UpdateSessionParams

\* lines 1098-1161: source constraint, metadata update, attached entity; an
\* exception here is outside the inner try and leaves the loop
WorkerBuildContext(s, k) ==
  /\ Holds(s, k)
  /\ tasks[s][k].pc = "context"
  /\ tasks' = IF ContextRaises(tasks[s][k].msg.ctx)
              THEN [tasks EXCEPT ![s][k].pc = "finally", ![s][k].exc = TRUE]
              ELSE [tasks EXCEPT ![s][k].pc = "start"]
  /\ UNCHANGED <<bus, running, gens, frames, metadata, published, accepted, engine_calls,
                 engine_events, session_files, transcripts, reconciled, reader, apart>>

\* lines 1163-1169
WorkerProcessingStart(s, k) ==
  /\ Holds(s, k)
  /\ tasks[s][k].pc = "start"
  /\ Emit(s, <<SessionEvent("processing_start", tasks[s][k].msg.id, <<>>)>>)
  /\ tasks' = [tasks EXCEPT ![s][k].pc = "call", ![s][k].current_text = <<>>,
                             ![s][k].turn = Append(@, "processing_start"),
                             ![s][k].deltas = <<>>]
  /\ UNCHANGED <<subscribers, message_queues, processing, running, gens, frames, metadata,
                 accepted, engine_calls, engine_events, session_files, transcripts, reconciled, reader, apart>>

\* (history) the engine id the runs of s have been given so far, if any
Canonical(s) ==
  IF \E p \in reconciled : p[1] = s
  THEN (CHOOSE p \in reconciled : p[1] = s)[2]
  ELSE NoId

\* line 1172: agent.send_message(...); it raises at once or the worker waits
\* for its first SDK message.  The call passes source_constraint, which
\* MajorAgent.send_message (agent.py) does not declare: with that class the
\* call is the raising branch; the other branch is an agent that takes it
WorkerEngineCall(s, k) ==
  /\ Holds(s, k)
  /\ tasks[s][k].pc = "call"
  /\ engine_calls' = [engine_calls EXCEPT ![s] =
                        Append(@, [mid |-> tasks[s][k].msg.id,
                                   resume |-> tasks[s][k].sdk_session_id, task |-> k,
                                   canonical |-> Canonical(s),
                                   transcript |-> get_history(transcripts,
                                                              tasks[s][k].sdk_session_id),
                                   last_result |-> tasks[s][k].last_result])]
  /\ \/ /\ tasks' = [tasks EXCEPT ![s][k].pc = "except", ![s][k].raised = TRUE]
        /\ UNCHANGED running
     \/ /\ tasks' = [tasks EXCEPT ![s][k].pc = "engine"]
        /\ running' = Idle
  /\ UNCHANGED <<bus, gens, frames, metadata, published, accepted, engine_events, session_files, transcripts, reconciled, reader, apart>>

\* a file or link name.jsonl -> target is added to a directory
WithFile(files, name, target) ==
  [x \in DOMAIN files \cup {name} |-> IF x = name THEN target ELSE files[x]]

\* the engine has written the transcript of a run that ended with session id
\* actual: <actual>.jsonl is in the SDK directory
EngineWrites(files, actual) ==
  IF actual \in DOMAIN files THEN files ELSE WithFile(files, actual, actual)

\* mutant: the link is made again whenever sdk_file exists
Symlink_Overwrite(files, s, actual) ==
  IF actual # s /\ actual \in DOMAIN files
  THEN WithFile(files, s, files[actual])
  ELSE files

\* lines 1233-1241: sdk_file.exists() and not our_file.exists(): our_file
\* becomes a symbolic link to sdk_file
Symlink(files, s, actual) ==
  IF actual # s /\ actual \in DOMAIN files /\ s \notin DOMAIN files
  THEN WithFile(files, s, files[actual])
  ELSE files

\* the directory .chelle/sessions after the engine has written <actual>.jsonl
\* to it and lines 1233-1241 have run
\* (Reconcile); lines 1229-1244 on the registry (OnResult); same_dir: .chelle/sessions is the directory
\* the engine writes its transcripts to, otherwise nothing of the engine is there
Reconcile(files, s, actual) == Symlink(EngineWrites(files, actual), s, actual)

OnResult(s, actual, same_dir) ==
  /\ metadata' = create_session(metadata, actual, clock)
  /\ transcripts' = IF same_dir THEN Reconcile(transcripts, s, actual)
                    ELSE EngineWrites(transcripts, actual)
  /\ session_files' = IF same_dir THEN Reconcile(session_files, s, actual)
                      ELSE session_files
  /\ reconciled' = reconciled \cup {<<s, actual>>}

\* the session ids an engine may give its runs
EngineIds == {EngineId, "eng-43"}

\* lines 1227-1244 alone: the ResultMessage of a run of session s has arrived
ResultHandled(s, actual, same_dir) ==
  /\ running = Idle
  /\ OnResult(s, actual, same_dir)
  /\ UNCHANGED <<bus, tasks, running, gens, frames, published, accepted, engine_calls,
                 engine_events, reader, apart>>

\* mutant: the resume identifier of the run is left as it was
NextResumeId_Keep(m, sdk_session_id) == sdk_session_id

\* line 1244: sdk_session_id = actual_sdk_id
NextResumeId(m, sdk_session_id) ==
  IF m.kind = "ResultMessage" THEN m.session_id ELSE sdk_session_id

\* the payloads of the text_delta events among evs
Payloads(evs) ==
  LET IsDelta(e) == e.type = "text_delta"
      ds == SelectSeq(evs, IsDelta)
  IN [i \in 1..Len(ds) |-> ds[i].text]

\* lines 1179-1244: one SDK message arrives and is republished; the engine
\* yields at most limit SDK messages
OnEngineEvent(limit, s, k, m, same_dir) ==
  /\ running = Idle
  /\ IsTask(s, k)
  /\ tasks[s][k].pc = "engine"
  /\ engine_events < limit
  /\ engine_events' = engine_events + 1
  /\ Emit(s, EventsFor(m, tasks[s][k].current_text, tasks[s][k].msg.id))
  /\ tasks' = [tasks EXCEPT
                 ![s][k].turn = @ \o Types(EventsFor(m, tasks[s][k].current_text,
                                                     tasks[s][k].msg.id)),
                 ![s][k].deltas = @ \o Payloads(EventsFor(m, tasks[s][k].current_text,
                                                          tasks[s][k].msg.id)),
                 ![s][k].current_text = IF m.kind = "AssistantMessage"
                                        THEN BlockText(m.content, @) ELSE @,
                 ![s][k].sdk_session_id = NextResumeId(m, @),
                 ![s][k].last_result = IF m.kind = "ResultMessage" THEN m.session_id ELSE @]
  /\ IF m.kind = "ResultMessage" THEN OnResult(s, m.session_id, same_dir)
                                  ELSE UNCHANGED registry
  /\ UNCHANGED <<subscribers, message_queues, processing, running, gens, frames, accepted,
                 engine_calls, reader, apart>>

\* an SDK message of a behaviour of MaxEngineEvents SDK messages
WorkerEngineEvent(s, k, m, same_dir) == OnEngineEvent(MaxEngineEvents, s, k, m, same_dir)

\* the engine streams a piece of text once, and before the complete message
\* that holds it
Streams(s, k, m) ==
  (m.kind = "StreamEvent" /\ m.type = "content_block_delta") =>
    \A j \in DOMAIN m.content[1].text :
      \A i \in DOMAIN tasks[s][k].deltas :
        \A h \in DOMAIN tasks[s][k].deltas[i] : tasks[s][k].deltas[i][h] # m.content[1].text[j]

\* an SDK message of a reply of MaxTurnEvents SDK messages
TurnEngineEvent(s, k, m, same_dir) ==
  /\ IsTask(s, k)
  /\ Streams(s, k, m)
  /\ OnEngineEvent(MaxTurnEvents, s, k, m, same_dir)

\* the engine raises while the worker waits for its next SDK message
WorkerEngineRaise(s, k) ==
  /\ running = Idle
  /\ IsTask(s, k)
  /\ tasks[s][k].pc = "engine"
  /\ tasks' = [tasks EXCEPT ![s][k].pc = "except", ![s][k].raised = TRUE]
  /\ running' = <<s, k>>
  /\ UNCHANGED <<bus, gens, frames, metadata, published, accepted, engine_calls,
                 engine_events, session_files, transcripts, reconciled, reader, apart>>

\* mutant: done is published for every message that completes
WorkerEngineEnd_Done(s, k, commit) ==
  /\ running = Idle
  /\ IsTask(s, k)
  /\ tasks[s][k].pc = "engine"
  /\ Emit(s, (IF tasks[s][k].current_text # <<>>
              THEN <<SessionEvent("assistant_message", tasks[s][k].msg.id,
                                  tasks[s][k].current_text)>>
              ELSE <<>>) \o <<SessionEvent("done", 0, <<>>)>>)
  /\ tasks' = [tasks EXCEPT ![s][k].pc = IF commit = "raised" THEN "except" ELSE "loop",
                             ![s][k].turn = IF tasks[s][k].current_text # <<>>
                                            THEN Append(@, "assistant_message") ELSE @]
  /\ running' = <<s, k>>
  /\ UNCHANGED <<subscribers, message_queues, processing, gens, frames, metadata, accepted,
                 engine_calls, engine_events, session_files, transcripts, reconciled, reader, apart>>

\* lines 1246-1254: the stream ends; assistant_message, then git_commit
WorkerEngineEnd(s, k, commit) ==
  /\ running = Idle
  /\ IsTask(s, k)
  /\ tasks[s][k].pc = "engine"
  /\ Emit(s, IF tasks[s][k].current_text # <<>>
             THEN <<SessionEvent("assistant_message", tasks[s][k].msg.id,
                                 tasks[s][k].current_text)>>
             ELSE <<>>)
  /\ tasks' = [tasks EXCEPT ![s][k].pc = IF commit = "raised" THEN "except" ELSE "loop",
                             ![s][k].turn = IF tasks[s][k].current_text # <<>>
                                            THEN Append(@, "assistant_message") ELSE @]
  /\ running' = <<s, k>>
  /\ UNCHANGED <<subscribers, message_queues, processing, gens, frames, metadata, accepted,
                 engine_calls, engine_events, session_files, transcripts, reconciled, reader, apart>>

\* mutant: the handler publishes the error and gives the run up
WorkerExcept_Abort(s, k) ==
  /\ Holds(s, k)
  /\ tasks[s][k].pc = "except"
  /\ Emit(s, <<SessionEvent("error", tasks[s][k].msg.id, <<>>)>>)
  /\ tasks' = [tasks EXCEPT ![s][k].pc = "finally", ![s][k].exc = TRUE,
                             ![s][k].turn = Append(@, "error")]
  /\ UNCHANGED <<subscribers, message_queues, processing, running, gens, frames, metadata,
                 accepted, engine_calls, engine_events, session_files, transcripts, reconciled, reader, apart>>

\* lines 1256-1260: except Exception: publish error, go on with the loop
WorkerExcept(s, k) ==
  /\ Holds(s, k)
  /\ tasks[s][k].pc = "except"
  /\ Emit(s, <<SessionEvent("error", tasks[s][k].msg.id, <<>>)>>)
  /\ tasks' = [tasks EXCEPT ![s][k].pc = "loop", ![s][k].turn = Append(@, "error")]
  /\ UNCHANGED <<subscribers, message_queues, processing, running, gens, frames, metadata,
                 accepted, engine_calls, engine_events, session_files, transcripts, reconciled, reader, apart>>

\* mutant: the flag is cleared when the queue is found empty, before done is
\* published
WorkerDone_ClearFirst(s, k) ==
  /\ Holds(s, k)
  /\ tasks[s][k].pc = "drained"
  /\ IF is_processing(processing, s)
     THEN /\ processing' = set_processing(processing, s, FALSE)
          /\ UNCHANGED <<chan, published, tasks, apart>>
     ELSE /\ Emit(s, <<SessionEvent("done", 0, <<>>)>>)
          /\ tasks' = [tasks EXCEPT ![s][k].pc = "finally"]
          /\ UNCHANGED processing
  /\ UNCHANGED <<subscribers, message_queues, running, gens, frames, metadata,
                 accepted, engine_calls, engine_events, session_files, transcripts, reconciled, reader, apart>>

\* lines 1262-1266: the queue is empty: publish done
WorkerDone(s, k) ==
  /\ Holds(s, k)
  /\ tasks[s][k].pc = "drained"
  /\ Emit(s, <<SessionEvent("done", 0, <<>>)>>)
  /\ tasks' = [tasks EXCEPT ![s][k].pc = "finally"]
  /\ UNCHANGED <<subscribers, message_queues, processing, running, gens, frames, metadata,
                 accepted, engine_calls, engine_events, session_files, transcripts, reconciled, reader, apart>>

\* mutant: the flag is cleared at the end of the loop, not in a finally
WorkerFinally_NoFinally(s, k) ==
  /\ Holds(s, k)
  /\ tasks[s][k].pc = "finally"
  /\ processing' = IF tasks[s][k].exc THEN processing ELSE set_processing(processing, s, FALSE)
  /\ tasks' = [tasks EXCEPT ![s][k] =
                 [NoTask EXCEPT !.pc = IF tasks[s][k].exc THEN "failed" ELSE "finished"]]
  /\ running' = Idle
  /\ UNCHANGED <<subscribers, message_queues, chan, gens, frames, metadata, published,
                 accepted, engine_calls, engine_events, session_files, transcripts, reconciled, reader, apart>>

\* lines 1268-1269: finally: clear the flag; the task ends
WorkerFinally(s, k) ==
  /\ Holds(s, k)
  /\ tasks[s][k].pc = "finally"
  /\ processing' = set_processing(processing, s, FALSE)
  /\ tasks' = [tasks EXCEPT ![s][k] =
                 [NoTask EXCEPT !.pc = IF tasks[s][k].exc THEN "failed" ELSE "finished"]]
  /\ running' = Idle
  /\ UNCHANGED <<subscribers, message_queues, chan, gens, frames, metadata, published,
                 accepted, engine_calls, engine_events, session_files, transcripts, reconciled, reader, apart>>

\* ---------------------------------------------------------------- the history of a session
\* The model follows the lines of one transcript, <EngineId>.jsonl (lines);
\* every other transcript the engine writes holds the same single entry
OtherLines == <<Entry("user", FALSE, <<"q">>, <<>>)>>
Stored(lines, t) == IF t = EngineId THEN lines ELSE OtherLines

\* get_history(workspace_path, id), lines 255-389: the history of the
\* transcript <id>.jsonl is or links to, nothing without it
read_history(files, lines, id) ==
  IF get_history(files, id) = NoHistory THEN <<>>
  ELSE ReadLines(Stored(lines, get_history(files, id)))

\* mutant: the exception of get_history is not caught
history_data_Raised(files, lines, id) == read_history(files, lines, id)

\* lines 1294-1303: the messages of the history frame: those get_history
\* returns, or none when it raises
history_data(files, lines, id) ==
  IF read_history(files, lines, id) = Failed THEN <<>>
  ELSE read_history(files, lines, id)

\* ---------------------------------------------------------------- session_events.generate
NoEvent == SessionEvent("none", 0, <<>>)
Frame(type, ev) == [type |-> type, event |-> ev, messages |-> <<>>]
HistoryFrame(messages) == [type |-> "history", event |-> NoEvent, messages |-> messages]
FreeGens == {u \in SubIds : gens[u].pc = "none"}

\* lines 1287-1291: subscribe, then yield the connected frame
GenSubscribe(u, s) ==
  /\ running = Idle
  /\ u \in FreeGens /\ \A v \in FreeGens : u <= v
  /\ subscribers' = subscribe(subscribers, s, u)
  /\ gens' = [gens EXCEPT ![u] = [NoGen EXCEPT !.pc = "connected", !.session = s,
                                                !.from = published[s],
                                                !.after = accepted[s]]]
  /\ frames' = [frames EXCEPT ![u] = Append(@, Frame("connected", NoEvent))]
  /\ UNCHANGED <<message_queues, processing, chan, tasks, running, metadata, published,
                 accepted, engine_calls, engine_events, session_files, transcripts, reconciled, reader, apart>>

\* mutant: the history frame is sent again instead of going on to the live events
GenHistory_Again(u) ==
  /\ running = Idle
  /\ gens[u].pc = "connected"
  /\ frames' = [frames EXCEPT ![u] = Append(@, Frame("history", NoEvent))]
  /\ gens' = [gens EXCEPT ![u].pc = IF Len(frames[u]) > 1 THEN "streaming" ELSE "connected"]
  /\ UNCHANGED <<bus, tasks, running, metadata, published, accepted, engine_calls,
                 engine_events, session_files, transcripts, reconciled, reader, apart>>

\* lines 1293-1303: read the history, yield the history frame
GenHistory(u) ==
  /\ running = Idle
  /\ gens[u].pc = "connected"
  /\ gens' = [gens EXCEPT ![u].pc = "streaming"]
  /\ frames' = [frames EXCEPT ![u] =
                  Append(@, HistoryFrame(history_data(transcripts, jsonl, gens[u].session)))]
  /\ UNCHANGED <<bus, tasks, running, metadata, published, accepted, engine_calls,
                 engine_events, session_files, transcripts, reconciled, reader, apart>>

\* mutant: the newest event on the channel is yielded first
GenDeliver_Last(u) ==
  /\ running = Idle
  /\ gens[u].pc = "streaming"
  /\ chan[u] # <<>>
  /\ chan' = [chan EXCEPT ![u] = SubSeq(@, 1, Len(@) - 1)]
  /\ frames' = [frames EXCEPT ![u] = Append(@, Frame("event", chan[u][Len(chan[u])]))]
  /\ gens' = [gens EXCEPT ![u].keepalive = FALSE]
  /\ UNCHANGED <<subscribers, message_queues, processing, tasks, running, metadata,
                 published, accepted, engine_calls, engine_events, session_files, transcripts, reconciled, reader, apart>>

\* lines 1310-1311: an event is on the channel: yield it
GenDeliver(u) ==
  /\ running = Idle
  /\ gens[u].pc = "streaming"
  /\ chan[u] # <<>>
  /\ chan' = [chan EXCEPT ![u] = Tail(@)]
  /\ frames' = [frames EXCEPT ![u] = Append(@, Frame("event", Head(chan[u])))]
  /\ gens' = [gens EXCEPT ![u].keepalive = FALSE]
  /\ UNCHANGED <<subscribers, message_queues, processing, tasks, running, metadata,
                 published, accepted, engine_calls, engine_events, session_files, transcripts, reconciled, reader, apart>>

\* mutant: the timeout ends the stream
GenKeepalive_Unsubscribe(u) ==
  /\ running = Idle
  /\ gens[u].pc = "streaming"
  /\ chan[u] = <<>>
  /\ subscribers' = unsubscribe(subscribers, gens[u].session, u)
  /\ gens' = [gens EXCEPT ![u].keepalive = TRUE]
  /\ UNCHANGED <<message_queues, processing, chan, tasks, running, frames, metadata, published,
                 accepted, engine_calls, engine_events, session_files, transcripts, reconciled, reader, apart>>

\* lines 1312-1314: nothing arrived within the timeout: yield a keepalive
\* and wait again
GenKeepalive(u) ==
  /\ running = Idle
  /\ gens[u].pc = "streaming"
  /\ chan[u] = <<>>
  /\ gens' = [gens EXCEPT ![u].keepalive = TRUE]
  /\ UNCHANGED <<bus, tasks, running, frames, metadata, published, accepted,
                 engine_calls, engine_events, session_files, transcripts, reconciled, reader, apart>>

\* lines 1316-1317: the client goes away at a yield: finally unsubscribe; the
\* generator and its queue are dropped
GenClose(u) ==
  /\ running = Idle
  /\ gens[u].pc \in {"connected", "streaming"}
  /\ subscribers' = unsubscribe(subscribers, gens[u].session, u)
  /\ gens' = [gens EXCEPT ![u] = [NoGen EXCEPT !.pc = "closed", !.session = gens[u].session]]
  /\ chan' = [chan EXCEPT ![u] = <<>>]
  /\ frames' = [frames EXCEPT ![u] = <<>>]
  /\ UNCHANGED <<message_queues, processing, tasks, running, metadata, published,
                 accepted, engine_calls, engine_events, session_files, transcripts, reconciled, reader, apart>>

\* ---------------------------------------------------------------- the store
\* the lines the engine writes to a transcript
EngineLines == { Entry("assistant", FALSE, NoStr, <<Text(<<"a">>)>>) }

\* the engine, a process of its own, appends a line to <EngineId>.jsonl in its
\* directory, making the file if it is not there
EngineWrite(line) ==
  /\ Len(jsonl) < MaxWrites
  /\ jsonl' = Append(jsonl, line)
  /\ transcripts' = EngineWrites(transcripts, EngineId)
  /\ UNCHANGED <<bus, tasks, running, gens, frames, metadata, published, accepted,
                 engine_calls, engine_events, session_files, reconciled, history, apart>>

\* GET /sessions/{id}/history
ReadHistory(id) ==
  /\ history' = read_history(transcripts, jsonl, id)
  /\ UNCHANGED <<bus, tasks, running, gens, frames, published, accepted, engine_calls,
                 engine_events, registry, jsonl, apart>>

\* GET /sessions: list_sessions removes the broken links it meets
ListSessions ==
  /\ transcripts' = unlink_broken(transcripts)
  /\ UNCHANGED <<bus, tasks, running, gens, frames, metadata, published, accepted,
                 engine_calls, engine_events, session_files, reconciled, reader, apart>>

\* DELETE /sessions/{id}: delete_session; a transcript that is removed takes
\* its lines with it
DeleteSession(id) ==
  /\ metadata' = delete_record(metadata, id)
  /\ transcripts' = delete_file(transcripts, id)
  /\ jsonl' = IF EngineId \in DOMAIN transcripts /\ EngineId \notin DOMAIN transcripts'
              THEN <<>> ELSE jsonl
  /\ UNCHANGED <<bus, tasks, running, gens, frames, published, accepted, engine_calls,
                 engine_events, session_files, reconciled, history, apart>>

\* the clock goes on
Tick ==
  /\ clock < MaxTime
  /\ clock' = clock + 1
  /\ UNCHANGED <<bus, tasks, running, gens, frames, published, accepted, engine_calls,
                 engine_events, registry, reader, filequeue, chatsend>>

\* the keyword arguments of an update_session call
Keywords ==
  { <<>>, [title |-> "t1"], [archived |-> TRUE], [title |-> "t2", archived |-> FALSE],
    [entity_type |-> "handoffs", entity_id |-> "h1"] }

\* SessionManager.update_session(workspace_path, id, **kw)
UpdateSession(id, kw) ==
  /\ metadata' = update_session(metadata, id, kw, clock)
  /\ UNCHANGED <<bus, tasks, running, gens, frames, published, accepted, engine_calls,
                 engine_events, session_files, transcripts, reconciled, reader, apart>>

\* SessionManager.create_session(workspace_path, id)
CreateSession(id) ==
  /\ metadata' = create_session(metadata, id, clock)
  /\ UNCHANGED <<bus, tasks, running, gens, frames, published, accepted, engine_calls,
                 engine_events, session_files, transcripts, reconciled, reader, apart>>

\* ---------------------------------------------------------------- worker_loop
\* The file queue .chelle/pending. pending_dir holds its files, oldest first; a
\* file is [id, session_id, raises], where raises tells whether process_message
\* raises on it.
PendingIds == {pending_dir[i].id : i \in DOMAIN pending_dir}
                \cup {processed[i].id : i \in DOMAIN processed}

\* the API server writes a pending file; ids are given in order
AddPending(s, raises) ==
  /\ \A x \in PendingIds : x < MaxPending
  /\ pending_dir' = Append(pending_dir,
                           [id |-> Cardinality(PendingIds) + 1, session_id |-> s, raises |-> raises])
  /\ UNCHANGED <<bus, tasks, running, gens, frames, published, accepted, engine_calls,
                 engine_events, registry, reader, clock, loop, processed, chatsend>>

\* session_manager.get_next_pending: the oldest pending file, None without one
get_next_pending(dir) == IF dir = <<>> THEN NoPending ELSE Head(dir)

\* session_manager.remove_pending: the file of that name is removed
remove_pending(dir, id) == SelectSeq(dir, LAMBDA p : p.id # id)

\* lines 190-199: poll; without a pending file sleep and poll again
LoopPoll ==
  /\ loop.pc = "poll"
  /\ loop' = IF get_next_pending(pending_dir) = NoPending THEN loop
             ELSE [pc |-> "process", pending |-> get_next_pending(pending_dir)]
  /\ UNCHANGED <<bus, tasks, running, gens, frames, published, accepted, engine_calls,
                 engine_events, registry, reader, clock, pending_dir, processed, chatsend>>

\* mutant: the removal is skipped when process_message raises
LoopProcess_Retry ==
  /\ loop.pc = "process"
  /\ processed' = Append(processed, [id |-> loop.pending.id,
                                      outcome |-> IF loop.pending.raises THEN "failed" ELSE "completed"])
  /\ loop' = IF loop.pending.raises THEN [pc |-> "poll", pending |-> NoPending]
             ELSE [loop EXCEPT !.pc = "remove"]
  /\ UNCHANGED <<bus, tasks, running, gens, frames, published, accepted, engine_calls,
                 engine_events, registry, reader, clock, pending_dir, chatsend>>

\* lines 201-205: process_message returns or raises; an Exception is logged and
\* the loop goes on to the removal either way
LoopProcess ==
  /\ loop.pc = "process"
  /\ processed' = Append(processed, [id |-> loop.pending.id,
                                      outcome |-> IF loop.pending.raises THEN "failed" ELSE "completed"])
  /\ loop' = [loop EXCEPT !.pc = "remove"]
  /\ UNCHANGED <<bus, tasks, running, gens, frames, published, accepted, engine_calls,
                 engine_events, registry, reader, clock, pending_dir, chatsend>>

\* lines 207-208: the pending file is removed, and the loop polls again
LoopRemove ==
  /\ loop.pc = "remove"
  /\ pending_dir' = remove_pending(pending_dir, loop.pending.id)
  /\ loop' = [pc |-> "poll", pending |-> NoPending]
  /\ UNCHANGED <<bus, tasks, running, gens, frames, published, accepted, engine_calls,
                 engine_events, registry, reader, clock, processed, chatsend>>

\* ---------------------------------------------------------------- chat_send
\* chat_runs logs the calls of chat_send: [requested, session_id, pc], where
\* pc is "already_running" for a call that was refused and otherwise the
\* position of the background task run_chat the call created; session_id is
\* the nonlocal variable of that task. running_sessions is _running_sessions,
\* from session id to task; a task is named by the number of its call.
PendingNames == <<"pending-1", "pending-2", "pending-3", "pending-4", "pending-5">>
IsPendingName(id) == \E n \in DOMAIN PendingNames : PendingNames[n] = id

\* task.done()
Done(k) == chat_runs[k].pc = "done"

\* lines 385-396 and 425-427: the session id of the request or a fresh pending
\* one; a task that is registered under it and not done makes the call return
\* already_running; otherwise run_chat is made a task and registered
chat_send(session_id) ==
  IF session_id \in DOMAIN running_sessions /\ ~Done(running_sessions[session_id])
  THEN /\ chat_runs' = Append(chat_runs, [requested |-> session_id, session_id |-> session_id,
                                          pc |-> "already_running"])
       /\ running_sessions' = running_sessions
  ELSE /\ chat_runs' = Append(chat_runs, [requested |-> session_id, session_id |-> session_id,
                                          pc |-> "running"])
       /\ running_sessions' = [x \in DOMAIN running_sessions \cup {session_id} |->
                                 IF x = session_id THEN Len(chat_runs) + 1 ELSE running_sessions[x]]

\* POST /chat/send with request.session_id, NoId for none
ChatSend(request_session_id) ==
  /\ Len(chat_runs) < MaxChatRuns
  /\ chat_send(IF request_session_id = NoId THEN PendingNames[Len(chat_runs) + 1]
               ELSE request_session_id)
  /\ UNCHANGED <<bus, tasks, running, gens, frames, published, accepted, engine_calls,
                 engine_events, registry, reader, clock, filequeue>>

\* lines 414-415: the entry under session_id, if there is one, is moved to
\* real_session_id
rekey(table, session_id, real_session_id) ==
  IF session_id \in DOMAIN table
  THEN [x \in (DOMAIN table \ {session_id}) \cup {real_session_id} |->
          IF x = real_session_id THEN table[session_id] ELSE table[x]]
  ELSE table

\* the identifiers the engine mints, one for each run that starts a session
MintedIds == <<"eng-51", "eng-52", "eng-53", "eng-54">>

\* lines 401-405: the engine is given the session id of the request to resume,
\* unless it is a pending one. It answers a run it starts afresh (no resume
\* id, or none it has a transcript of) under an identifier it mints, and a run
\* that resumes a transcript under the identifier it was given or under the
\* one of the transcript that file is (an alias is a link to it)
EngineAnswers(k) ==
  IF IsPendingName(chat_runs[k].requested) \/ ~Exists(transcripts, chat_runs[k].requested)
  THEN {MintedIds[k]}
  ELSE {chat_runs[k].requested, transcripts[chat_runs[k].requested]}

\* lines 406-416: the ResultMessage of run k carries real_session_id, and the
\* engine has written the transcript of that session
RunResult(k, real_session_id) ==
  /\ k \in DOMAIN chat_runs
  /\ chat_runs[k].pc = "running"
  /\ real_session_id \in EngineAnswers(k)
  /\ transcripts' = EngineWrites(transcripts, real_session_id)
  /\ metadata' = create_session(metadata, real_session_id, clock)
  /\ running_sessions' = rekey(running_sessions, chat_runs[k].session_id, real_session_id)
  /\ chat_runs' = [chat_runs EXCEPT ![k].session_id = real_session_id, ![k].pc = "resulted"]
  /\ UNCHANGED <<bus, tasks, running, gens, frames, published, accepted, engine_calls,
                 engine_events, session_files, reconciled, reader, clock, filequeue>>

\* lines 417-423: the engine's stream ends or raises, with or without a
\* ResultMessage before; finally pops the entry under session_id
RunFinish(k) ==
  /\ k \in DOMAIN chat_runs
  /\ chat_runs[k].pc \in {"running", "resulted"}
  /\ running_sessions' = Del(running_sessions, chat_runs[k].session_id)
  /\ chat_runs' = [chat_runs EXCEPT ![k].pc = "done"]
  /\ UNCHANGED <<bus, tasks, running, gens, frames, published, accepted, engine_calls,
                 engine_events, registry, reader, clock, filequeue>>

\* ---------------------------------------------------------------- specification
TaskNos == 1..(MaxMessages + 1)
Accepted == accepted["s1"] + accepted["s2"]

\* the worker tasks
Worker ==
  \/ \E s \in Sessions, k \in TaskNos : WorkerGuard(s, k)
  \/ \E s \in Sessions, k \in TaskNos : WorkerGetNext(s, k)
  \/ \E s \in Sessions, k \in TaskNos : WorkerBuildContext(s, k)
  \/ \E s \in Sessions, k \in TaskNos : WorkerProcessingStart(s, k)
  \/ \E s \in Sessions, k \in TaskNos : WorkerEngineCall(s, k)
  \/ \E s \in Sessions, k \in TaskNos, m \in EngineMessages, same_dir \in BOOLEAN :
       WorkerEngineEvent(s, k, m, same_dir)
  \/ \E s \in Sessions, k \in TaskNos : WorkerEngineRaise(s, k)
  \/ \E s \in Sessions, k \in TaskNos, commit \in CommitOutcomes : WorkerEngineEnd(s, k, commit)
  \/ \E s \in Sessions, k \in TaskNos : WorkerExcept(s, k)
  \/ \E s \in Sessions, k \in TaskNos : WorkerDone(s, k)
  \/ \E s \in Sessions, k \in TaskNos : WorkerFinally(s, k)

\* the event streams of the generators in U
StreamOf(U) ==
  \/ \E u \in U, s \in Sessions : GenSubscribe(u, s)
  \/ \E u \in U : GenHistory(u)
  \/ \E u \in U : GenDeliver(u)
  \/ \E u \in U : GenKeepalive(u)
  \/ \E u \in U : GenClose(u)

\* clients send at most n messages
SendUpTo(n) == \E s \in Sessions, ctx \in Contexts : Accepted < n /\ send_message(s, ctx)

\* everything together; the specifications after it are the parts of it that
\* the properties are checked on
Next == SendUpTo(MaxMessages) \/ Worker \/ StreamOf(SubIds)

Spec == Init /\ [][Next]_vars

\* messages and workers, with nobody listening
NextWorkers == SendUpTo(MaxMessages) \/ Worker

SpecWorkers == Init /\ [][NextWorkers]_vars

\* messages, workers and one event stream
NextStream == SendUpTo(MaxStreamMessages) \/ Worker \/ StreamOf({1})

SpecStream == Init /\ [][NextStream]_vars

\* the event bus: messages, workers whose engine yields no SDK message, and
\* streams that subscribe and close at any time without consuming
NextBus ==
  \/ SendUpTo(MaxStreamMessages)
  \/ \E s \in Sessions, k \in TaskNos : WorkerGuard(s, k)
  \/ \E s \in Sessions, k \in TaskNos : WorkerGetNext(s, k)
  \/ \E s \in Sessions, k \in TaskNos : WorkerBuildContext(s, k)
  \/ \E s \in Sessions, k \in TaskNos : WorkerProcessingStart(s, k)
  \/ \E s \in Sessions, k \in TaskNos : WorkerEngineCall(s, k)
  \/ \E s \in Sessions, k \in TaskNos : WorkerEngineRaise(s, k)
  \/ \E s \in Sessions, k \in TaskNos, commit \in CommitOutcomes : WorkerEngineEnd(s, k, commit)
  \/ \E s \in Sessions, k \in TaskNos : WorkerExcept(s, k)
  \/ \E s \in Sessions, k \in TaskNos : WorkerDone(s, k)
  \/ \E s \in Sessions, k \in TaskNos : WorkerFinally(s, k)
  \/ \E u \in SubIds, s \in Sessions : GenSubscribe(u, s)
  \/ \E u \in SubIds : GenHistory(u)
  \/ \E u \in SubIds : GenClose(u)

SpecBus == Init /\ [][NextBus]_vars

\* messages, workers and clients that rename sessions
NextSessions ==
  \/ SendUpTo(MaxStreamMessages)
  \/ Worker
  \/ \E id \in Sessions \cup {EngineId}, title \in Titles \cup {NoTitle} : PatchSession(id, title)

SpecSessions == Init /\ [][NextSessions]_vars

\* the registry under the results of arbitrary runs: any session, any engine
\* identifier (the session's own too), in any order and repeatedly
NextAlias ==
  \/ \E s \in Sessions : \E actual \in EngineIds \cup {s}, same_dir \in BOOLEAN :
       ResultHandled(s, actual, same_dir)
  \/ \E id \in Sessions, title \in Titles : PatchSession(id, title)

SpecAlias == Init /\ [][NextAlias]_vars

\* fan-out: clients that send messages and two streams that consume their
\* channels; the worker tasks are not scheduled, so the events are the
\* user_message events send_message publishes
NextFanout ==
  \/ SendUpTo(MaxMessages)
  \/ \E u \in SubIds, s \in Sessions : GenSubscribe(u, s)
  \/ \E u \in SubIds : GenHistory(u)
  \/ \E u \in SubIds : GenDeliver(u)
  \/ \E u \in SubIds : GenKeepalive(u)
  \/ \E u \in SubIds : GenClose(u)

SpecFanout == Init /\ [][NextFanout]_vars

\* one message to one session, answered by a reply of up to MaxTurnEvents SDK
\* messages
NextTurn ==
  \/ \E ctx \in Contexts : Accepted < 1 /\ send_message("s1", ctx)
  \/ \E k \in TaskNos : WorkerGuard("s1", k)
  \/ \E k \in TaskNos : WorkerGetNext("s1", k)
  \/ \E k \in TaskNos : WorkerBuildContext("s1", k)
  \/ \E k \in TaskNos : WorkerProcessingStart("s1", k)
  \/ \E k \in TaskNos : WorkerEngineCall("s1", k)
  \/ \E k \in TaskNos, m \in TurnMessages, same_dir \in BOOLEAN :
       TurnEngineEvent("s1", k, m, same_dir)
  \/ \E k \in TaskNos : WorkerEngineRaise("s1", k)
  \/ \E k \in TaskNos, commit \in CommitOutcomes : WorkerEngineEnd("s1", k, commit)
  \/ \E k \in TaskNos : WorkerExcept("s1", k)
  \/ \E k \in TaskNos : WorkerDone("s1", k)
  \/ \E k \in TaskNos : WorkerFinally("s1", k)

SpecTurn == Init /\ [][NextTurn]_vars

\* up to MaxRunMessages messages without context to one session, whose
\* engine ends its reply or raises, and a client that listens without reading
NextRun ==
  \/ Accepted < MaxRunMessages /\ send_message("s1", "none")
  \/ \E k \in TaskNos : WorkerGuard("s1", k)
  \/ \E k \in TaskNos : WorkerGetNext("s1", k)
  \/ \E k \in TaskNos : WorkerBuildContext("s1", k)
  \/ \E k \in TaskNos : WorkerProcessingStart("s1", k)
  \/ \E k \in TaskNos : WorkerEngineCall("s1", k)
  \/ \E k \in TaskNos : WorkerEngineRaise("s1", k)
  \/ \E k \in TaskNos, commit \in CommitOutcomes : WorkerEngineEnd("s1", k, commit)
  \/ \E k \in TaskNos : WorkerExcept("s1", k)
  \/ \E k \in TaskNos : WorkerDone("s1", k)
  \/ \E k \in TaskNos : WorkerFinally("s1", k)
  \/ GenSubscribe(1, "s1")

SpecRun == Init /\ [][NextRun]_vars

\* up to MaxMessages messages without context to one session, answered by
\* replies of SDK messages, and a client that listens without reading
NextDrain ==
  \/ Accepted < MaxMessages /\ send_message("s1", "none")
  \/ \E k \in TaskNos : WorkerGuard("s1", k)
  \/ \E k \in TaskNos : WorkerGetNext("s1", k)
  \/ \E k \in TaskNos : WorkerBuildContext("s1", k)
  \/ \E k \in TaskNos : WorkerProcessingStart("s1", k)
  \/ \E k \in TaskNos : WorkerEngineCall("s1", k)
  \/ \E k \in TaskNos, m \in EngineMessages, same_dir \in BOOLEAN :
       WorkerEngineEvent("s1", k, m, same_dir)
  \/ \E k \in TaskNos : WorkerEngineRaise("s1", k)
  \/ \E k \in TaskNos, commit \in CommitOutcomes : WorkerEngineEnd("s1", k, commit)
  \/ \E k \in TaskNos : WorkerExcept("s1", k)
  \/ \E k \in TaskNos : WorkerDone("s1", k)
  \/ \E k \in TaskNos : WorkerFinally("s1", k)
  \/ GenSubscribe(1, "s1")

SpecDrain == Init /\ [][NextDrain]_vars

\* get_history on a file that may be missing, unreadable or have bad lines
NextInput == \E io_error \in BOOLEAN : ReadTranscript(io_error)

SpecInput == InitInput /\ [][NextInput]_vars

\* get_history on every transcript of MaxLines lines or less
NextReader == GetHistory

SpecReader == InitReader /\ [][NextReader]_vars

\* the store under everything but the engine's runs themselves: the engine
\* writes, results of runs of s1 are handled, clients read, list, rename,
\* delete, send a message and subscribe
StoreIds == {"s1", EngineId}
NextStore ==
  \/ \E line \in EngineLines : EngineWrite(line)
  \/ \E id \in StoreIds : ReadHistory(id)
  \/ ListSessions
  \/ \E id \in StoreIds : DeleteSession(id)
  \/ \E actual \in StoreIds, same_dir \in BOOLEAN : ResultHandled("s1", actual, same_dir)
  \/ UpdateSession("s1", [title |-> "t1"])
  \/ Accepted < MaxStreamMessages /\ send_message("s1", "none")
  \/ GenSubscribe(1, "s1")
  \/ GenHistory(1)

SpecStore == Init /\ [][NextStore]_vars

\* the registry alone: updates, creations, deletions and terminal events of
\* runs, while the clock goes on
NextRecords ==
  \/ Tick
  \/ \E id \in StoreIds, kw \in Keywords : UpdateSession(id, kw)
  \/ \E id \in StoreIds : CreateSession(id)
  \/ \E id \in StoreIds : DeleteSession(id)
  \/ ResultHandled("s1", EngineId, FALSE)

SpecRecords == Init /\ [][NextRecords]_vars

\* the lines the engine writes while clients subscribe: an entry, and a line
\* get_history raises on
SubscribeLines == { Entry("assistant", FALSE, NoStr, <<Text(<<"a">>)>>), ValueLine }

\* clients that subscribe and consume while the engine writes a transcript,
\* s1 becomes an alias of it and messages are sent; the worker tasks are not
\* scheduled
NextSubscribe ==
  \/ \E line \in SubscribeLines : EngineWrite(line)
  \/ ResultHandled("s1", EngineId, TRUE)
  \/ SendUpTo(MaxStreamMessages)
  \/ \E u \in SubIds, s \in Sessions : GenSubscribe(u, s)
  \/ \E u \in SubIds : GenHistory(u)
  \/ \E u \in SubIds : GenDeliver(u)

SpecSubscribe == Init /\ [][NextSubscribe]_vars

\* the file queue: the server writes pending files while worker_loop runs
NextFileQueue ==
  \/ \E s \in Sessions, raises \in BOOLEAN : AddPending(s, raises)
  \/ LoopPoll
  \/ LoopProcess
  \/ LoopRemove

SpecFileQueue == Init /\ [][NextFileQueue]_vars

\* the identifiers of chat_send requests and of the engine's answers
ChatIds == {"s1", EngineId}

\* chat_send calls with and without session id and their background runs,
\* in a workspace where a run of the other endpoint may have made s1 an alias
\* of the engine's eng-42
NextChat ==
  \/ \E id \in ChatIds \cup {NoId} : ChatSend(id)
  \/ \E k \in 1..MaxChatRuns, i \in 1..MaxChatRuns : RunResult(k, MintedIds[i])
  \/ \E k \in 1..MaxChatRuns, real \in ChatIds : RunResult(k, real)
  \/ \E k \in 1..MaxChatRuns : RunFinish(k)
  \/ ResultHandled("s1", EngineId, TRUE)

SpecChat == Init /\ [][NextChat]_vars

\* ---------------------------------------------------------------- properties
Count(seq, x) == Cardinality({i \in DOMAIN seq : seq[i] = x})

ActivePcs == {"loop", "context", "start", "call", "engine", "except", "drained", "finally"}
EndedPcs == {"returned", "finished", "failed"}

\* the worker runs of s that are past the guard and have not ended
Active(s) == {k \in DOMAIN tasks[s] : tasks[s][k].pc \in ActivePcs}
\* the worker tasks of s that were created and have not started
Created(s) == {k \in DOMAIN tasks[s] : tasks[s][k].pc = "created"}
\* every worker task of s has ended
Quiescent(s) == \A k \in DOMAIN tasks[s] : tasks[s][k].pc \in EndedPcs
\* the message ids handed to the engine, in order
Handed(s) == [i \in DOMAIN engine_calls[s] |-> engine_calls[s][i].mid]
QueueOf(s) == IF s \in DOMAIN message_queues THEN message_queues[s] ELSE <<>>

\* C1: single-flight: for every session at most one worker run is past its
\* processing-flag guard (popping the queue or invoking the engine) at any time
C1_SingleFlight == \A s \in Sessions : Cardinality(Active(s)) <= 1

\* C1 witness: one run waits for the engine while a second task of the same
\* session, made by a later send_message, is about to start
C1_Witness ==
  \E s \in Sessions : \E k1, k2 \in DOMAIN tasks[s] :
    tasks[s][k1].pc = "engine" /\ tasks[s][k2].pc = "created"

\* C2 (as claimed): the messages handed to the engine are at every moment a
\* prefix of the accepted messages 1, 2, ...: none reordered, skipped or repeated
C2_FifoPrefix ==
  \A s \in Sessions :
    /\ Len(Handed(s)) <= accepted[s]
    /\ \A i \in DOMAIN engine_calls[s] : Handed(s)[i] = i

\* C3 (as claimed): no message is left behind: once no worker task of the
\* session is pending or running, the queue is empty and every accepted message
\* has been handed to the engine
C3_NoneLeftBehind ==
  \A s \in Sessions :
    Quiescent(s) =>
      /\ QueueOf(s) = <<>>
      /\ {Handed(s)[i] : i \in DOMAIN engine_calls[s]} = 1..accepted[s]

\* C5: the processing flag of a session is true exactly while one of its worker
\* runs is active; after a run has ended, by draining or by an exception, it is false
C5_FlagIffActive == \A s \in Sessions : is_processing(processing, s) <=> Active(s) # {}

\* C5 witness: a run has ended by an exception and the flag is false
C5_Witness ==
  \E s \in Sessions : \E k \in DOMAIN tasks[s] :
    tasks[s][k].pc = "failed" /\ ~is_processing(processing, s) /\ s \in DOMAIN processing

\* C6: when the engine raises on a message the run is in the handler or back at
\* the top of its loop, still holding the flag and the event loop; back at the
\* top it has published exactly one error and no assistant_message for the message
C6_EngineErrorIsolated ==
  \A s \in Sessions : \A k \in DOMAIN tasks[s] :
    tasks[s][k].raised =>
      /\ tasks[s][k].pc \in {"except", "loop"}
      /\ Holds(s, k)
      /\ is_processing(processing, s)
      /\ Count(tasks[s][k].turn, "assistant_message") = 0
      /\ Count(tasks[s][k].turn, "error") = (IF tasks[s][k].pc = "loop" THEN 1 ELSE 0)

\* C6 witness: the engine raised after it had yielded text, the error is
\* published, and the run is about to pop the next queued message
C6_Witness ==
  \E s \in Sessions : \E k \in DOMAIN tasks[s] :
    /\ tasks[s][k].raised /\ tasks[s][k].pc = "loop"
    /\ tasks[s][k].current_text # <<>>
    /\ QueueOf(s) # <<>>

\* C7 (as claimed): no worker run is ended by a failure local to one message
C7_NoRunAborted == \A s \in Sessions : \A k \in DOMAIN tasks[s] : tasks[s][k].pc # "failed"

\* C8 (as claimed): two send_message calls never both start a worker task for
\* the same session before one has set the flag
C8_OneTaskStarted == \A s \in Sessions : Cardinality(Created(s)) <= 1

\* C8 (amended): a worker task that starts while the flag of its session is set
\* returns at the guard: it pops nothing, leaves the flag, publishes nothing and
\* does not invoke the engine
C8_DuplicateTaskReturns ==
  [][\A s \in Sessions : \A k \in DOMAIN tasks[s] :
       (tasks[s][k].pc = "created" /\ tasks'[s][k].pc # "created"
          /\ is_processing(processing, s))
       => /\ tasks'[s][k].pc = "returned"
          /\ UNCHANGED <<message_queues, processing, published, engine_calls, running, apart>>]_vars

\* C8 witness: a duplicate task has returned at the guard
C8_Witness ==
  \E s \in Sessions : \E k \in DOMAIN tasks[s] :
    tasks[s][k].pc = "returned" /\ Active(s) # {}

\* ---------------------------------------------------------------- streams
IsEvent(f) == f.type = "event"
\* the events a stream has yielded so far
Yielded(u) == [i \in 1..Len(SelectSeq(frames[u], IsEvent)) |->
                 SelectSeq(frames[u], IsEvent)[i].event]
\* every event put on the channel of u since it subscribed, in order
Received(u) == Yielded(u) \o chan[u]
\* u has subscribed and not unsubscribed
Registered(u) == gens[u].pc \in {"connected", "streaming"}
Members(list) == {list[i] : i \in DOMAIN list}

\* C4: no missed events: the events put on the channel of a registered
\* subscriber are exactly the events published to its session since it
\* subscribed, each once and in order, whatever other subscribers do
C4_NoMissed ==
  \A u \in SubIds :
    Registered(u) =>
      /\ Len(Received(u)) = published[gens[u].session] - gens[u].from
      /\ \A i \in DOMAIN Received(u) : Received(u)[i].timestamp = gens[u].from + i

\* C4 witness: two subscribers of one session that subscribed at different
\* moments, with events published before the second subscribed and after
C4_Witness ==
  /\ Registered(1) /\ Registered(2)
  /\ gens[1].session = gens[2].session
  /\ gens[1].from < gens[2].from
  /\ chan[2] # <<>>

\* the events of messages accepted after u subscribed come in order: a
\* processing_start after its user_message; text_delta, tool_use,
\* assistant_message and error after their processing_start; nothing of the
\* turn after its assistant_message but an error; nothing of the message after
\* the done that follows it
C9_EventOrder ==
  \A u \in SubIds :
    Registered(u) =>
      LET R == Received(u) IN
      \A i \in DOMAIN R :
        R[i].mid > gens[u].after =>
          /\ R[i].type = "processing_start" =>
               \E j \in 1..(i - 1) : R[j].type = "user_message" /\ R[j].mid = R[i].mid
          /\ R[i].type \in {"text_delta", "tool_use", "assistant_message", "error"} =>
               \E j \in 1..(i - 1) : R[j].type = "processing_start" /\ R[j].mid = R[i].mid
          /\ R[i].type = "assistant_message" =>
               \A j \in (i + 1)..Len(R) : R[j].mid = R[i].mid => R[j].type = "error"
          /\ R[i].type = "processing_start" =>
               \A d \in (i + 1)..Len(R) : \A j \in (d + 1)..Len(R) :
                 R[d].type = "done" => R[j].mid # R[i].mid

\* message m of the session of u has reached u: user_message, then
\* processing_start, then done
Reached(u, m) ==
  LET R == Received(u) IN
  \E i, j, d \in DOMAIN R :
    /\ i < j /\ j < d
    /\ R[i].type = "user_message" /\ R[i].mid = m
    /\ R[j].type = "processing_start" /\ R[j].mid = m
    /\ R[d].type = "done"

\* once the worker tasks of its session have ended, every message accepted
\* after u subscribed has reached u
AllReached(u) ==
  (Registered(u) /\ Quiescent(gens[u].session)) =>
    \A m \in (gens[u].after + 1)..accepted[gens[u].session] : Reached(u, m)

\* as long as no run of the session was aborted, the events do reach u
C9_ReachUnlessAborted ==
  \A u \in SubIds :
    (\A k \in DOMAIN tasks[gens[u].session] : tasks[gens[u].session][k].pc # "failed")
      => AllReached(u)

\* C9 (as claimed): for a subscriber registered before a message is enqueued,
\* the events of the message reach it in the order user_message,
\* processing_start, text_delta/tool_use, at most one assistant_message, with
\* done after them
C9_EventsReachInOrder == C9_EventOrder /\ \A u \in SubIds : AllReached(u)

\* C9 witness: a subscriber from the start has received a whole turn
C9_Witness ==
  \E u \in SubIds :
    /\ Registered(u) /\ gens[u].after = 0
    /\ Types(Received(u)) = <<"user_message", "processing_start", "text_delta", "tool_use",
                              "assistant_message", "done">>

\* C10: a stream is registered on the bus before it reads the history; its
\* frames are one connected frame, then one history frame, then events from
\* its channel: no event before the history frame, no second history frame
C10_FrameOrder ==
  \A u \in SubIds :
    /\ gens[u].pc = "connected" =>
         /\ frames[u] = <<Frame("connected", NoEvent)>>
         /\ u \in Members(SubscribersOf(subscribers, gens[u].session))
    /\ gens[u].pc = "streaming" =>
         /\ Len(frames[u]) >= 2
         /\ u \in Members(SubscribersOf(subscribers, gens[u].session))
    /\ \A i \in DOMAIN frames[u] :
         frames[u][i].type = (IF i = 1 THEN "connected" ELSE IF i = 2 THEN "history" ELSE "event")

\* C10 witness: a stream has yielded connected, history, live events from its
\* channel and then a keepalive
C10_Witness ==
  \E u \in SubIds :
    /\ gens[u].pc = "streaming"
    /\ Len(frames[u]) >= 4
    /\ frames[u][3].event.type = "user_message"
    /\ gens[u].keepalive

\* C11: every subscriber gets the events of its session in the order of the
\* publish calls: what it has yielded and what waits on its channel is in
\* strictly increasing publication order
C11_PublishOrder ==
  \A u \in SubIds :
    Registered(u) =>
      \A i, j \in DOMAIN Received(u) :
        i < j => Received(u)[i].timestamp < Received(u)[j].timestamp

\* C11 witness: two subscribers of one session have each got two events; one
\* has yielded both, the other has yielded one and the second waits on its channel
C11_Witness ==
  /\ Registered(1) /\ Registered(2)
  /\ gens[1].session = gens[2].session
  /\ Len(Yielded(1)) = 2
  /\ Len(Yielded(2)) = 1 /\ Len(chan[2]) = 1

\* ---------------------------------------------------------------- identifiers
\* what get_session returns for id, the identifier itself left out
SessionView(id) == [get_session(metadata, transcripts, id, clock) EXCEPT !.session_id = "any"]

\* C12 (as claimed): after the engine has returned an identifier other than the
\* one the client uses, get_session and get_history give the same under both,
\* whatever update_session calls follow
C12_SameUnderEitherId ==
  \A p \in reconciled :
    p[1] # p[2] =>
      /\ SessionView(p[1]) = SessionView(p[2])
      /\ get_history(transcripts, p[1]) = get_history(transcripts, p[2])

\* the metadata part of C12 alone
C12_SameMetadata ==
  \A p \in reconciled :
    SessionView(p[1]) = SessionView(p[2])

\* the transcript part of C12 alone
C12_SameTranscript ==
  \A p \in reconciled : get_history(transcripts, p[1]) = get_history(transcripts, p[2])

C14_ResumeIsCanonical ==
  \A s \in Sessions : \A i \in DOMAIN engine_calls[s] :
    IF engine_calls[s][i].canonical = NoId
    THEN engine_calls[s][i].resume = NoId
    ELSE engine_calls[s][i].transcript = engine_calls[s][i].canonical

\* the first half of C14 alone: without transcript no resume identifier
C14_FirstCallPassesNone ==
  \A s \in Sessions : \A i \in DOMAIN engine_calls[s] :
    engine_calls[s][i].canonical = NoId => engine_calls[s][i].resume = NoId

\* C14 witness: the first invocation of a later run of a reconciled session
C14_Witness ==
  \E s \in Sessions : \E i \in DOMAIN engine_calls[s] :
    /\ engine_calls[s][i].canonical = EngineId
    /\ engine_calls[s][i].last_result = NoId

\* C15: once a ResultMessage of a run has carried an identifier, every later
\* engine invocation of that run passes the identifier of the latest one
C15_ResumeAfterResult ==
  \A s \in Sessions : \A i \in DOMAIN engine_calls[s] :
    engine_calls[s][i].last_result # NoId =>
      engine_calls[s][i].resume = engine_calls[s][i].last_result

\* C15 witness: the second message of a run is handed to the engine after the
\* first ended with a ResultMessage; the run had started without resume identifier
C15_Witness ==
  \E s \in Sessions : \E i, j \in DOMAIN engine_calls[s] :
    /\ i < j
    /\ engine_calls[s][i].task = engine_calls[s][j].task
    /\ engine_calls[s][i].resume = NoId
    /\ engine_calls[s][j].last_result = EngineId

\* ---------------------------------------------------------------- history properties
\* the entry is neither skipped as a line nor as a meta entry
Shown(line) == line.kind = "json" /\ ~line.isMeta

\* the entry is a user entry with text
IsUserTurn(line) ==
  /\ Shown(line)
  /\ line.type \in {"human", "user"}
  /\ IF line.str # NoStr THEN \E i \in DOMAIN line.str : line.str[i] \notin Whitespace
     ELSE \E i \in DOMAIN line.blocks : line.blocks[i].type \in {"text", "str"}

\* the text blocks of an assistant entry, in order
AssistantTexts(line) ==
  IF Shown(line) /\ line.type = "assistant" /\ line.str = NoStr
  THEN SelectSeq(line.blocks, IsTextBlock) ELSE <<>>

RECURSIVE TurnsOf(_, _)
\* the assistant text blocks of the transcript, turn by turn: what precedes the
\* first user entry with text, then what follows each of them
TurnsOf(lines, cur) ==
  IF lines = <<>> THEN <<cur>>
  ELSE IF IsUserTurn(Head(lines)) THEN <<cur>> \o TurnsOf(Tail(lines), <<>>)
  ELSE TurnsOf(Tail(lines), cur \o AssistantTexts(Head(lines)))

RECURSIVE OutTurns(_, _)
\* the assistant messages of the output, turn by turn
OutTurns(out, cur) ==
  IF out = <<>> THEN <<cur>>
  ELSE IF Head(out).role = "user" THEN <<cur>> \o OutTurns(Tail(out), <<>>)
  ELSE OutTurns(Tail(out), IF Head(out).role = "assistant" THEN Append(cur, Head(out)) ELSE cur)

RECURSIVE Concat(_)
\* the texts of the blocks, one after the other
Concat(blocks) == IF blocks = <<>> THEN <<>> ELSE Head(blocks).text \o Concat(Tail(blocks))

IsNotNL(c) == c # NL

\* C16: get_history returns, for each turn of the transcript, no assistant
\* message if the turn has no assistant text block and otherwise exactly one,
\* made of all the text blocks of the turn in transcript order (with line
\* breaks between them), placed immediately before the next user message or
\* at the end of the output.
C16_OneAssistantPerTurn ==
  history # NotRead =>
    LET ref == TurnsOf(jsonl, <<>>)
        out == OutTurns(history, <<>>)
    IN /\ Len(out) = Len(ref)
       /\ \A t \in DOMAIN ref :
            IF ref[t] = <<>> THEN out[t] = <<>>
            ELSE /\ Len(out[t]) = 1
                 /\ SelectSeq(out[t][1].content, IsNotNL) = Concat(ref[t])
       /\ \A i \in DOMAIN history :
            history[i].role = "assistant" =>
              i = Len(history) \/ history[i + 1].role = "user"

\* C16 witness: a turn of two assistant entries, the first with two text
\* blocks around a tool call, is one assistant message right before the
\* next user message
C16_Witness ==
  /\ Len(jsonl) = 3
  /\ jsonl[1].type = "assistant" /\ Len(jsonl[1].blocks) = 3
  /\ jsonl[2].type = "assistant"
  /\ Len(history) = 3
  /\ history[2] = SessionMessage("assistant", <<"b", NL, "c", NL, NL, "a">>, NoTool)
  /\ history[3].role = "user"

IsNotAssistant(msg) == msg.role # "assistant"

\* the user message of a user entry with text
IsTextItem(b) == b.type \in {"text", "str"}
ItemTexts(blocks) ==
  [i \in DOMAIN SelectSeq(blocks, IsTextItem) |-> SelectSeq(blocks, IsTextItem)[i].text]
UserMessageOf(line) ==
  SessionMessage("user",
                 IF line.str # NoStr THEN line.str
                 ELSE Join(ItemTexts(line.blocks), <<NL>>), NoTool)

RECURSIVE InOrder(_)
\* the user messages, tool calls and tool results of the transcript, in the
\* order of its entries and of their blocks
InOrder(lines) ==
  IF lines = <<>> THEN <<>>
  ELSE (IF IsUserTurn(Head(lines)) THEN <<UserMessageOf(Head(lines))>>
        ELSE IF Shown(Head(lines)) /\ Head(lines).type = "assistant" /\ Head(lines).str = NoStr
        THEN ToolMessages(Head(lines).blocks)
        ELSE <<>>)
       \o InOrder(Tail(lines))

\* the turns of the transcript that have assistant text
TurnsWithText(lines) == {t \in DOMAIN TurnsOf(lines, <<>>) : TurnsOf(lines, <<>>)[t] # <<>>}

\* C17: the user, tool_use and tool_result messages get_history returns are
\* those of the transcript in the order of its entries and blocks, and there
\* are as many assistant messages as turns with assistant text, however many
\* text blocks the turns have.
C17_OrderKept ==
  history # NotRead =>
    /\ SelectSeq(history, IsNotAssistant) = InOrder(jsonl)
    /\ Len(history) - Len(SelectSeq(history, IsNotAssistant))
         = Cardinality(TurnsWithText(jsonl))

\* C17 witness: a tool call between two user messages, in an entry with two
\* text blocks
C17_Witness ==
  /\ Len(history) = 4
  /\ history[1].role = "user"
  /\ history[2] = SessionMessage("tool_use", json_dumps("f"), "Read")
  /\ history[3].role = "assistant"
  /\ history[4].role = "user"
\* ---------------------------------------------------------------- reply text properties
\* the task has finished a message whose engine run did not fail
Answered(s, k) ==
  /\ IsTask(s, k)
  /\ tasks[s][k].pc = "loop"
  /\ tasks[s][k].turn # <<>>
  /\ Count(tasks[s][k].turn, "error") = 0

\* C18 (as claimed): when a message has been processed without failure and
\* text_delta events were published for it, exactly one assistant_message was
\* published for it, after all of them, and its content (current_text, line
\* 1250) is the concatenation of their payloads in publication order.
C18_MessageIsSumOfDeltas ==
  \A s \in Sessions, k \in TaskNos :
    (Answered(s, k) /\ tasks[s][k].deltas # <<>>) =>
      /\ Count(tasks[s][k].turn, "assistant_message") = 1
      /\ tasks[s][k].turn[Len(tasks[s][k].turn)] = "assistant_message"
      /\ tasks[s][k].current_text = Join(tasks[s][k].deltas, <<>>)

\* C18 witness: a reply of one AssistantMessage, for which the claim holds
C18_Witness ==
  \E k \in TaskNos :
    /\ Answered("s1", k)
    /\ tasks["s1"][k].deltas = << <<"a">> >>
    /\ tasks["s1"][k].current_text = <<"a">>
    /\ tasks["s1"][k].turn[Len(tasks["s1"][k].turn)] = "assistant_message"

\* C19 (as claimed): no text_delta published for a message is empty, and no
\* piece of text is in two of them.
C19_DeltaIsIncrement ==
  \A s \in Sessions, k \in TaskNos :
    IsTask(s, k) =>
      LET sent == Join(tasks[s][k].deltas, <<>>) IN
      /\ \A i \in DOMAIN tasks[s][k].deltas : tasks[s][k].deltas[i] # <<>>
      /\ \A i, j \in DOMAIN sent : sent[i] = sent[j] => i = j

\* the part of C19 that holds: no text_delta is empty
C19_NoEmptyDelta ==
  \A s \in Sessions, k \in TaskNos :
    IsTask(s, k) => \A i \in DOMAIN tasks[s][k].deltas : tasks[s][k].deltas[i] # <<>>

\* C19 witness: of a second complete message "bc", after a first "a", what
\* lies beyond the length of the first has been republished
C19_Witness ==
  \E k \in TaskNos :
    /\ IsTask("s1", k)
    /\ tasks["s1"][k].deltas = << <<"a">>, <<"c">> >>
\* ---------------------------------------------------------------- run properties
\* stream 1 has listened to s1 since before its first event and read nothing
Listening == gens[1].pc = "connected" /\ gens[1].session = "s1" /\ gens[1].from = 0

\* the events of the given type published to s1 for message mid
EventsOf(type, mid) ==
  {i \in DOMAIN chan[1] : chan[1][i].type = type /\ chan[1][i].mid = mid}

\* messages were sent to s1, its queue is empty and its worker tasks have ended
Drained == accepted["s1"] > 0 /\ QueueOf("s1") = <<>> /\ Quiescent("s1")

\* the messages the engine failed on, and those that completed normally
Failing == {mid \in 1..accepted["s1"] : EventsOf("error", mid) # {}}
Normal == {mid \in 1..accepted["s1"] : EventsOf("processing_start", mid) # {}} \ Failing

\* the worker runs of s1 that have ended after their loop
FinishedRuns == {k \in DOMAIN tasks["s1"] : tasks["s1"][k].pc = "finished"}

\* a message the engine raised on has its error event, once the handler has run
ErrorPublished ==
  \A k \in TaskNos :
    (IsTask("s1", k) /\ tasks["s1"][k].raised
       /\ tasks["s1"][k].pc \in {"loop", "drained", "finally"}) =>
      Cardinality(EventsOf("error", tasks["s1"][k].msg.id)) = 1

\* C20 (as claimed): once the queue of a session whose engine raised on a
\* message has drained, there is a done event for every message that completed
\* normally, an error event for the failing message, and the flag is false.
C20_DonePerMessage ==
  (Listening /\ Drained /\ Failing # {}) =>
    /\ Cardinality(EventsOf("done", 0)) >= Cardinality(Normal)
    /\ ~is_processing(processing, "s1")

\* C20 (corrected): the failing message has its error event; done is published
\* once per worker run, as the last event of the run after the queue has
\* drained, whatever the number of messages that completed normally; and the
\* flag is false once the queue has drained.
C20_OneDonePerRun ==
  Listening =>
    /\ ErrorPublished
    /\ Drained =>
         /\ Cardinality(EventsOf("done", 0)) = Cardinality(FinishedRuns)
         /\ chan[1][Len(chan[1])].type = "done"
         /\ \A mid \in 1..accepted["s1"] :
              Cardinality(EventsOf("processing_start", mid)) = 1
         /\ ~is_processing(processing, "s1")

\* C20 witness: one run has handled three messages, the engine raised on the
\* second, and the queue has drained
C20_Witness ==
  /\ Listening /\ Drained
  /\ accepted["s1"] = 3
  /\ Failing = {2}
  /\ Normal = {1, 3}
  /\ Cardinality(FinishedRuns) = 1
  /\ Cardinality(EventsOf("done", 0)) = 1
\* ---------------------------------------------------------------- end of a run
\* the worker events published to s1: all but the user_message events
IsWorkerEvent(e) == e.type # "user_message"
WorkerEvents == SelectSeq(chan[1], IsWorkerEvent)

\* the runs of s1 that have published their done event
DoneRuns ==
  {k \in DOMAIN tasks["s1"] :
     tasks["s1"][k].pc = "finished" \/ (tasks["s1"][k].pc = "finally" /\ ~tasks["s1"][k].exc)}

\* the last worker event published to s1 is a done event
DoneIsLast == WorkerEvents # <<>> /\ WorkerEvents[Len(WorkerEvents)].type = "done"

\* C21: each worker run that has drained its queue has published exactly one
\* done event, which follows every event of the messages the run processed,
\* and a step that clears the processing flag is taken only when that done
\* event has been published.
C21_DoneThenClear ==
  /\ [](Listening =>
          /\ Cardinality(EventsOf("done", 0)) = Cardinality(DoneRuns)
          /\ \A k \in DoneRuns : tasks["s1"][k].pc = "finally" => DoneIsLast
          /\ (Drained /\ DoneRuns # {}) => DoneIsLast)
  /\ [][(Listening /\ is_processing(processing, "s1") /\ ~is_processing(processing', "s1"))
          => DoneIsLast]_vars

\* C21 witness: a run has processed two messages, the first with a reply, has
\* published its done event and cleared the flag
C21_Witness ==
  /\ Listening /\ Drained
  /\ Cardinality(DoneRuns) = 1
  /\ ~is_processing(processing, "s1")
  /\ EventsOf("assistant_message", 1) # {}
  /\ EventsOf("processing_start", 2) # {}
  /\ DoneIsLast
\* ---------------------------------------------------------------- commit sink
\* C22 (as claimed): a message whose engine run completed has no error event,
\* whatever the outcome of git_commit.
C22_CommitFailureSilent ==
  \A k \in TaskNos :
    (IsTask("s1", k) /\ ~tasks["s1"][k].raised) => Count(tasks["s1"][k].turn, "error") = 0

\* C22 witness: the engine run of a message with a reply has completed, the
\* commit has returned, and the worker is back at its loop without an error
C22_Witness ==
  \E k \in TaskNos :
    /\ Answered("s1", k)
    /\ ~tasks["s1"][k].raised
    /\ tasks["s1"][k].turn[Len(tasks["s1"][k].turn)] = "assistant_message"
\* ---------------------------------------------------------------- runs and subscribers
\* C23 (as claimed): with no subscriber or any, once the worker tasks of a
\* session have ended, each of its messages has been taken from the queue and
\* given to the engine, and its flag is false.
C23_RunCompletes ==
  \A s \in Sessions :
    Quiescent(s) =>
      /\ QueueOf(s) = <<>>
      /\ Len(engine_calls[s]) = accepted[s]
      /\ ~is_processing(processing, s)

\* the part of C23 that holds: unless a run was ended by an exception, the
\* queue is empty and the flag false once the tasks have ended, and nothing is
\* put on the channel of a stream that has gone away
C23_UnlessAborted ==
  /\ \A s \in Sessions :
       (Quiescent(s) /\ \A k \in DOMAIN tasks[s] : tasks[s][k].pc # "failed") =>
         /\ QueueOf(s) = <<>>
         /\ Len(engine_calls[s]) = accepted[s]
         /\ ~is_processing(processing, s)
  /\ \A u \in SubIds : gens[u].pc \in {"none", "closed"} => chan[u] = <<>>

\* C23 witness: a run has handled its message and ended by draining its
\* queue after the only subscriber of its session went away
C23_Witness ==
  /\ accepted["s1"] = 1
  /\ Len(engine_calls["s1"]) = 1
  /\ Quiescent("s1")
  /\ \E k \in DOMAIN tasks["s1"] : tasks["s1"][k].pc = "finished"
  /\ \E u \in SubIds : gens[u].pc = "closed" /\ gens[u].session = "s1"
  /\ SubscribersOf(subscribers, "s1") = <<>>
  /\ ~is_processing(processing, "s1")
\* ---------------------------------------------------------------- unsubscribe
\* the list without the channel
Without(list, u) == LET Other(v) == v # u IN SelectSeq(list, Other)

\* C24: in every state of the bus, unsubscribe(s, u) takes u off the list of s
\* and leaves the lists of s and of every other session otherwise as they are;
\* it changes nothing if u is not on the list of s or s has no list; a publish
\* after it puts nothing on the channel u; and the channel of a stream that
\* has unsubscribed is on no list and gets no event.
C24_UnsubscribeExact ==
  /\ \A s \in Sessions, u \in SubIds :
       LET after == unsubscribe(subscribers, s, u) IN
       /\ SubscribersOf(after, s) = Without(SubscribersOf(subscribers, s), u)
       /\ \A x \in Sessions \ {s} : SubscribersOf(after, x) = SubscribersOf(subscribers, x)
       /\ u \notin Members(SubscribersOf(subscribers, s)) => after = subscribers
       /\ \A x \in DOMAIN after : after[x] # <<>>
       /\ publish(chan, after, s, SessionEvent("done", 0, <<>>))[u] = chan[u]
  /\ \A u \in SubIds :
       gens[u].pc = "closed" =>
         /\ chan[u] = <<>>
         /\ \A s \in Sessions : u \notin Members(SubscribersOf(subscribers, s))

\* C24 witness: of two streams of one session one has unsubscribed, the other
\* is still registered and has an event on its channel
C24_Witness ==
  /\ gens[1].pc = "closed" /\ gens[1].session = "s1"
  /\ gens[2].session = "s1"
  /\ SubscribersOf(subscribers, "s1") = <<2>>
  /\ chan[2] # <<>>
  /\ accepted["s1"] = MaxMessages
\* ---------------------------------------------------------------- keepalive
\* the stream u is on the subscriber list of its session
OnList(u) == u \in Members(SubscribersOf(subscribers, gens[u].session))

\* C25: a keepalive is yielded only when the channel is empty, by a step that
\* changes nothing of the bus, of the frames yielded and of the worker tasks;
\* a stream whose last frame is a keepalive is still streaming and
\* subscribed, and has got every event published to its session since it
\* subscribed, in order.
C25_KeepaliveOnly ==
  /\ [](\A u \in SubIds :
          gens[u].keepalive =>
            /\ gens[u].pc = "streaming"
            /\ OnList(u)
            /\ Len(Received(u)) = published[gens[u].session] - gens[u].from
            /\ \A i \in DOMAIN Received(u) : Received(u)[i].timestamp = gens[u].from + i)
  /\ [][\A u \in SubIds :
          (~gens[u].keepalive /\ gens'[u].keepalive) =>
            /\ chan[u] = <<>>
            /\ gens'[u].pc = "streaming"
            /\ UNCHANGED <<bus, frames, tasks, running, apart>>]_vars

\* C25 witness: a stream has yielded an event and then, while the worker waits
\* for the engine, a keepalive
C25_Witness ==
  \E u \in SubIds :
    /\ gens[u].keepalive
    /\ Len(Yielded(u)) >= 2
    /\ \E k \in TaskNos :
         IsTask(gens[u].session, k) /\ tasks[gens[u].session][k].pc = "engine"
    /\ is_processing(processing, gens[u].session)
\* ---------------------------------------------------------------- send_message
\* the user_message event of message mid is the last event on the channel
LastIsUserMessage(ch, mid) ==
  ch # <<>> /\ ch[Len(ch)].type = "user_message" /\ ch[Len(ch)].mid = mid

\* C26: every send_message step, for a session with or without queue, record
\* and running worker, adds the message with its context at the end of the
\* queue of the session and nothing else to any queue, publishes one event,
\* and puts the user_message event of the message on the channel of each
\* stream subscribed at that moment and on no other channel.
C26_SendQueuesAndPublishes ==
  [][\A s \in Sessions :
       accepted'[s] # accepted[s] =>
         /\ accepted'[s] = accepted[s] + 1
         /\ s \in DOMAIN message_queues'
         /\ Len(QueueOf(s)') = Len(QueueOf(s)) + 1
         /\ SubSeq(QueueOf(s)', 1, Len(QueueOf(s))) = QueueOf(s)
         /\ QueueOf(s)'[Len(QueueOf(s)')].id = accepted'[s]
         /\ QueueOf(s)'[Len(QueueOf(s)')].ctx \in Contexts
         /\ \A x \in Sessions \ {s} : QueueOf(x)' = QueueOf(x)
         /\ published'[s] = published[s] + 1
         /\ subscribers' = subscribers
         /\ \A u \in SubIds :
              IF u \in Members(SubscribersOf(subscribers, s))
              THEN /\ Len(chan'[u]) = Len(chan[u]) + 1
                   /\ SubSeq(chan'[u], 1, Len(chan[u])) = chan[u]
                   /\ LastIsUserMessage(chan'[u], accepted'[s])
              ELSE chan'[u] = chan[u]]_vars

\* C26 witness: a second message was sent to a session while its worker was
\* running and a stream was subscribed: it waits in the queue and its
\* user_message event is on the channel
C26_Witness ==
  /\ Listening
  /\ accepted["s1"] = 2
  /\ is_processing(processing, "s1")
  /\ \E k \in TaskNos : IsTask("s1", k) /\ tasks["s1"][k].pc = "engine" /\ tasks["s1"][k].msg.id = 1
  /\ Len(QueueOf("s1")) = 1 /\ QueueOf("s1")[1].id = 2
  /\ LastIsUserMessage(chan[1], 2)
\* ---------------------------------------------------------------- bad transcript input
\* C27 (as claimed): get_history raises on no transcript.
C27_NeverFails == history # Failed

IsParsed(line) == line.kind # "not json"

\* the part of C27 that holds: without a file the history is empty; lines
\* that are not JSON are skipped and the other lines are processed as if they
\* were not there
C27_SkipsUnparsed ==
  history # NotRead =>
    /\ get_history(transcripts, EngineId) = NoHistory => history = <<>>
    /\ history \in {<<>>, ReadLines(SelectSeq(jsonl, IsParsed))}

\* C27 witness: a line that is not JSON stands between two entries, and the
\* history has both
C27_Witness ==
  /\ Len(jsonl) = 3
  /\ jsonl[2] = BadLine
  /\ Len(history) = 2
  /\ history[1].role = "user"
  /\ history[2].role = "assistant"

\* ---- user entries ----

IsUserEntry(line) == Shown(line) /\ line.type \in {"human", "user"}
IsUserMessage(m) == m.role = "user"

\* C28 (as stated): every user or human entry that is not meta contributes
\* exactly one user message to the history
C28_OnePerUserEntry ==
  history \notin {NotRead, Failed}
    => Len(SelectSeq(history, IsUserMessage)) = Len(SelectSeq(jsonl, IsUserEntry))

\* C28: the user messages of the history are, in order, those of the user and
\* human entries that are not meta and have text: a string that is not blank,
\* unchanged, or a list with a text block or a string item, its texts joined
\* with newlines; an entry without text contributes none
C28_UserEntries ==
  history \notin {NotRead, Failed}
    => SelectSeq(history, IsUserMessage)
         = [i \in DOMAIN SelectSeq(jsonl, IsUserTurn) |->
              UserMessageOf(SelectSeq(jsonl, IsUserTurn)[i])]

\* a transcript with a string entry, a blank entry and a list entry was read
C28_Witness ==
  /\ jsonl = << Entry("user", FALSE, <<"q">>, <<>>),
                Entry("user", FALSE, <<" ">>, <<>>),
                Entry("user", FALSE, NoStr, <<Str(<<"p">>), Text(<<"q">>)>>) >>
  /\ history = << SessionMessage("user", <<"q">>, NoTool),
                  SessionMessage("user", <<"p", NL, "q">>, NoTool) >>

\* ---- tool blocks ----

IsToolBlock(b) == b.type \in {"tool_use", "tool_result"}
IsToolMessage(m) == m.role \in {"tool_use", "tool_result"}

RECURSIVE ToolBlocksOf(_)
\* the tool blocks of the assistant entries that are not meta, in order
ToolBlocksOf(lines) ==
  IF lines = <<>> THEN <<>>
  ELSE (IF Shown(Head(lines)) /\ Head(lines).type = "assistant"
        THEN SelectSeq(Head(lines).blocks, IsToolBlock)
        ELSE <<>>)
       \o ToolBlocksOf(Tail(lines))

\* the result of a tool_result block before truncation
ResultOf(b) == IF b.parts # <<>> THEN Join(b.parts, <<NL>>) ELSE b.content

\* the message a tool block stands for
ToolMessageOf(b) ==
  IF b.type = "tool_use"
  THEN SessionMessage("tool_use", <<"{", b.input, "}">>, b.name)
  ELSE SessionMessage("tool_result",
                      [i \in 1..(IF Len(ResultOf(b)) > 1000 THEN 1000 ELSE Len(ResultOf(b)))
                         |-> ResultOf(b)[i]],
                      NoTool)

\* C29: the tool_use and tool_result messages of the history are, in order,
\* one per tool block of the assistant entries: a tool_use message with the
\* tool name and the serialized input, a tool_result message with the first
\* 1000 characters of the result; consolidation keeps each of them
C29_ToolMessages ==
  history \notin {NotRead, Failed}
    => /\ SelectSeq(history, IsToolMessage)
            = [i \in DOMAIN ToolBlocksOf(jsonl) |-> ToolMessageOf(ToolBlocksOf(jsonl)[i])]
       /\ \A i \in DOMAIN history :
            history[i].role = "tool_result" => Len(history[i].content) <= 1000

\* a tool call between two texts and a result longer than the limit were read
C29_Witness ==
  /\ jsonl = << Entry("assistant", FALSE, NoStr,
                      <<Text(<<"b">>), ToolUse("Read", "f"), Text(<<"c">>)>>),
                Entry("assistant", FALSE, NoStr, <<ToolResult(LongResult)>>) >>
  /\ Len(history) = 3
  /\ history[1] = SessionMessage("tool_use", <<"{", "f", "}">>, "Read")
  /\ history[2].role = "tool_result"
  /\ Len(history[2].content) = 1000
  /\ history[3].role = "assistant"

\* ---- meta entries ----

IsMeta(line) == line.kind = "json" /\ line.isMeta
IsNotMeta(line) == ~IsMeta(line)

IsFile(files, x) == x \in DOMAIN files /\ files[x] = x

\* the step is a write of the engine: a line is appended and nothing of the
\* core changes, or a transcript that was not there is
EngineWrote ==
  \/ /\ \E line \in EngineLines : jsonl' = Append(jsonl, line)
     /\ UNCHANGED <<metadata, accepted, frames, reconciled, history>>
  \/ \E x \in StoreIds : IsFile(transcripts', x) /\ x \notin DOMAIN transcripts

\* the step is an explicit deletion
Deleting ==
  \E id \in StoreIds :
    /\ id \in DOMAIN metadata \cup DOMAIN transcripts
    /\ metadata' = delete_record(metadata, id)
    /\ transcripts' = delete_file(transcripts, id)

\* C31 (as stated): a step that is neither a write of the engine nor a
\* deletion leaves every transcript as it is, and get_history returns for
\* every identifier what it returned before
C31_OnlyEngineWrites ==
  [][ (~EngineWrote /\ ~Deleting)
        => /\ jsonl' = jsonl
           /\ \A id \in StoreIds :
                read_history(transcripts', jsonl', id) = read_history(transcripts, jsonl, id) ]_vars

\* C31: a step that is neither a write of the engine nor a deletion leaves
\* the lines of every transcript file, and the files, as they are; get_history
\* returns for every identifier what it returned before, unless the
\* identifier had no transcript and the step has made it an alias of one
C31_TranscriptsKept ==
  [][ (~EngineWrote /\ ~Deleting)
        => /\ jsonl' = jsonl
           /\ \A x \in StoreIds :
                /\ IsFile(transcripts, x) => IsFile(transcripts', x)
                /\ IsFile(session_files, x) => IsFile(session_files', x)
           /\ \A id \in StoreIds :
                \/ read_history(transcripts', jsonl', id) = read_history(transcripts, jsonl, id)
                \/ /\ ~Exists(transcripts, id)
                   /\ Exists(transcripts', id) /\ ~IsFile(transcripts', id) ]_vars

\* the engine has written two lines, s1 is an alias of its transcript and has
\* a record with a title, a message to s1 was accepted, a stream of s1 has had
\* its history frame, and the history read last is that of the two lines
C31_Witness ==
  /\ Len(jsonl) = 2
  /\ Exists(transcripts, "s1") /\ transcripts["s1"] = EngineId
  /\ "s1" \in DOMAIN metadata /\ metadata["s1"].title = "t1"
  /\ accepted["s1"] = 1
  /\ gens[1].pc = "streaming"
  /\ history = History(jsonl) /\ history # <<>>

\* ---------------------------------------------------------------- deletion
\* C32 (as claimed): delete_session(id) removes the record of id and the
\* transcript under id, whether id is the transcript's own identifier or an
\* alias of it: afterwards that transcript is not in the store, get_session(id)
\* is None and the history of id is empty; the other records are as they were
C32_DeleteRemoves ==
  [][ \A id \in StoreIds :
        DeleteSession(id)
          => /\ id \notin DOMAIN metadata'
             /\ Exists(transcripts, id) => transcripts[id] \notin DOMAIN transcripts'
             /\ get_session(metadata', transcripts', id, clock) = NoSession
             /\ read_history(transcripts', jsonl', id) = <<>>
             /\ \A x \in DOMAIN metadata \ {id} :
                  x \in DOMAIN metadata' /\ metadata'[x] = metadata[x] ]_vars

\* the part of C32 that holds: the record of id and the name <id>.jsonl are
\* removed, and nothing else
C32_DeleteUnlinks ==
  [][ \A id \in StoreIds :
        DeleteSession(id)
          => /\ id \notin DOMAIN metadata' /\ id \notin DOMAIN transcripts'
             /\ get_session(metadata', transcripts', id, clock) = NoSession
             /\ read_history(transcripts', jsonl', id) = <<>>
             /\ \A x \in DOMAIN metadata \ {id} :
                  x \in DOMAIN metadata' /\ metadata'[x] = metadata[x]
             /\ \A x \in DOMAIN transcripts \ {id} :
                  x \in DOMAIN transcripts' /\ transcripts'[x] = transcripts[x] ]_vars

\* s1 was an alias of the engine's transcript and has been deleted: it has no
\* record and no file, and the transcript and the record of eng-42 are there
C32_Witness ==
  /\ <<"s1", EngineId>> \in reconciled
  /\ "s1" \notin DOMAIN metadata /\ "s1" \notin DOMAIN transcripts
  /\ "s1" \in DOMAIN session_files
  /\ IsFile(transcripts, EngineId) /\ jsonl # <<>>
  /\ EngineId \in DOMAIN metadata

\* ---------------------------------------------------------------- records
\* the fields of a record but updated_at
KeptFields == UpdateSessionParams \cup {"created_at", "workspace_path"}

\* C33: update_session(id, kw) leaves a record of id whose supplied fields have
\* the supplied values and whose updated_at is the time of the call; a field
\* that is not supplied keeps its value, created_at included, or has its
\* default when the record is new; every other record is unchanged
C33_UpdateExactly ==
  [][ \A id \in StoreIds, kw \in Keywords :
        UpdateSession(id, kw)
          => /\ DOMAIN metadata' = DOMAIN metadata \cup {id}
             /\ \A f \in DOMAIN kw : metadata'[id][f] = kw[f]
             /\ metadata'[id].updated_at = clock
             /\ \A f \in KeptFields \ DOMAIN kw :
                  metadata'[id][f] = IF id \in DOMAIN metadata THEN metadata[id][f]
                                     ELSE NewRecord(clock)[f]
             /\ \A x \in DOMAIN metadata \ {id} : metadata'[x] = metadata[x] ]_vars

\* a record made at time 1 has been updated at a later time, next to a record
\* of another session
C33_Witness ==
  /\ DOMAIN metadata = StoreIds
  /\ metadata["s1"].title = "t2" /\ metadata["s1"].entity_id = "h1"
  /\ metadata["s1"].created_at = 1 /\ metadata["s1"].updated_at = MaxTime
  /\ metadata[EngineId].archived /\ metadata[EngineId].updated_at = 1

\* the fields of a record a user sees and sets
UserVisible == {"title", "archived", "project_id", "entity_type", "entity_id", "created_at"}

\* C38: create_session on a session that has a record, called directly or by
\* the terminal event of a run, leaves the title, the archived flag, the linked
\* entity and created_at of that record as they were
C38_CreateKeeps ==
  [][ \A id \in StoreIds :
        ( /\ id \in DOMAIN metadata
          /\ CreateSession(id) \/ (id = EngineId /\ ResultHandled("s1", id, FALSE)) )
          => /\ id \in DOMAIN metadata'
             /\ \A f \in UserVisible : metadata'[id][f] = metadata[id][f] ]_vars

\* a record with a title, an archived flag and a linked entity has been through
\* a later create_session: updated_at is the time of that call
C38_Witness ==
  /\ EngineId \in DOMAIN metadata
  /\ metadata[EngineId].title = "t1" /\ metadata[EngineId].archived
  /\ metadata[EngineId].entity_type = "handoffs"
  /\ metadata[EngineId].created_at = 1 /\ metadata[EngineId].updated_at = MaxTime
  /\ <<"s1", EngineId>> \in reconciled

\* ---------------------------------------------------------------- get_session
\* the session id has a transcript: its name is a file, or a link to a file
\* that is there
HasTranscript(id) ==
  \E x \in DOMAIN transcripts :
    IsFile(transcripts, x) /\ id \in DOMAIN transcripts /\ transcripts[id] = x

\* C34: get_session(id) is None exactly when id has neither a record nor a
\* transcript; with a record it carries the fields of the record, and with a
\* transcript only it carries the defaults: no title, not archived, no linked
\* entity, the time of the call
C34_AbsentIffNeither ==
  \A id \in StoreIds :
    LET s == get_session(metadata, transcripts, id, clock) IN
      /\ s = NoSession <=> (id \notin DOMAIN metadata /\ ~HasTranscript(id))
      /\ id \in DOMAIN metadata
           => /\ s.session_id = id
              /\ \A f \in UserVisible \cup {"updated_at"} : s[f] = metadata[id][f]
      /\ (id \notin DOMAIN metadata /\ HasTranscript(id))
           => s = SessionMetadata(id, NoTitle, FALSE, NoValue, NoValue, NoValue, clock, clock)

\* s1 has a record and no transcript, eng-42 a transcript and no record
C34_Witness ==
  /\ "s1" \in DOMAIN metadata /\ ~HasTranscript("s1")
  /\ EngineId \notin DOMAIN metadata /\ HasTranscript(EngineId)
  /\ get_session(metadata, transcripts, "s1", clock).session_id = "s1"
  /\ get_session(metadata, transcripts, EngineId, clock).session_id = EngineId

\* ---------------------------------------------------------------- the history frame
\* get_history on the transcript of the session raises: one of its lines is
\* JSON and not an object
ReadRaises(id) ==
  /\ HasTranscript(id)
  /\ \E i \in DOMAIN Stored(jsonl, transcripts[id]) :
       Stored(jsonl, transcripts[id])[i].kind = "json value"

\* C35: a stream yields the connected frame, then the history frame, then
\* events. The history frame of a session without record and transcript has no
\* messages, and so has the history frame of a session whose transcript fails
\* to be read; otherwise it has the history of the transcript
C35_EmptyHistory ==
  [][ \A u \in SubIds :
        /\ \A i \in DOMAIN frames'[u] :
             frames'[u][i].type = (IF i = 1 THEN "connected" ELSE IF i = 2 THEN "history" ELSE "event")
        /\ GenHistory(u)
             => /\ frames[u] = <<Frame("connected", NoEvent)>>
                /\ Len(frames'[u]) = 2
                /\ gens'[u].pc = "streaming"
                /\ (gens[u].session \notin DOMAIN metadata /\ ~HasTranscript(gens[u].session))
                     => frames'[u][2].messages = <<>>
                /\ ReadRaises(gens[u].session) => frames'[u][2].messages = <<>>
                /\ (HasTranscript(gens[u].session) /\ ~ReadRaises(gens[u].session))
                     => frames'[u][2].messages = History(Stored(jsonl, transcripts[gens[u].session])) ]_vars

\* stream 1 subscribed to s2, which had no record and no transcript, got an
\* empty history and then an event; stream 2 subscribed to s1, whose transcript
\* has a line that makes get_history raise, and got an empty history
C35_Witness ==
  /\ gens[1].session = "s2" /\ gens[1].after = 0 /\ ~HasTranscript("s2")
  /\ Len(frames[1]) = 3 /\ frames[1][2] = HistoryFrame(<<>>)
  /\ frames[1][3].type = "event"
  /\ gens[2].session = "s1" /\ ReadRaises("s1")
  /\ Len(frames[2]) = 2 /\ frames[2][2] = HistoryFrame(<<>>)

\* ---------------------------------------------------------------- created by the first message
\* C36: when send_message has accepted a message for a session that had no
\* record and no transcript, get_session returns a record of that session,
\* while the message is still queued and no worker task has taken it
C36_CreatedByFirstMessage ==
  [][ \A s \in Sessions :
        (accepted'[s] = accepted[s] + 1 /\ s \notin DOMAIN metadata /\ ~HasTranscript(s))
          => /\ get_session(metadata', transcripts', s, clock) # NoSession
             /\ get_session(metadata', transcripts', s, clock).session_id = s
             /\ s \in DOMAIN metadata'
             /\ \A x \in DOMAIN metadata : x \in DOMAIN metadata' /\ metadata'[x] = metadata[x]
             /\ engine_calls'[s] = engine_calls[s]
             /\ s \in DOMAIN message_queues' /\ message_queues'[s] # <<>> ]_vars

\* the first message of s1 is accepted and its task has not started: s1 has a
\* record and no transcript
C36_Witness ==
  /\ accepted["s1"] = 1
  /\ Len(tasks["s1"]) = 1 /\ tasks["s1"][1].pc = "created"
  /\ engine_calls["s1"] = <<>>
  /\ "s1" \in DOMAIN metadata /\ ~HasTranscript("s1")
  /\ get_session(metadata, transcripts, "s1", clock).session_id = "s1"

\* ---------------------------------------------------------------- routing
\* a task of session s holds the event loop before or after the step
WorkerStepOf(s) == \E k \in TaskNos : running = <<s, k>> \/ running' = <<s, k>>

\* C37: a step that publishes under session s puts the new events, and nothing
\* else, on the channels subscribed under s and leaves every other channel as
\* it was; it is a send_message for s or a step of a worker task of s, and a
\* step of a worker task of s publishes under no other session
C37_RoutedBySession ==
  [][ \A s \in Sessions :
        /\ published'[s] # published[s]
             => /\ \A u \in SubIds :
                     IF u \in Members(SubscribersOf(subscribers, s))
                     THEN /\ Len(chan'[u]) = Len(chan[u]) + published'[s] - published[s]
                          /\ SubSeq(chan'[u], 1, Len(chan[u])) = chan[u]
                          /\ \A i \in (Len(chan[u]) + 1)..Len(chan'[u]) :
                               chan'[u][i].timestamp = published[s] + i - Len(chan[u])
                     ELSE chan'[u] = chan[u]
                /\ accepted'[s] # accepted[s] \/ WorkerStepOf(s)
        /\ WorkerStepOf(s) => \A t \in Sessions \ {s} : published'[t] = published[t] ]_vars

\* a worker task of s1 has published to the stream of s1 while a stream of s2
\* was registered and got nothing
C37_Witness ==
  /\ Registered(1) /\ Registered(2)
  /\ gens[1].session = "s1" /\ gens[2].session = "s2"
  /\ gens[1].from = 0 /\ gens[2].from = 0
  /\ published["s1"] >= 2 /\ Len(chan[1]) = published["s1"]
  /\ published["s2"] = 0 /\ chan[2] = <<>>
  /\ \E k \in TaskNos : running = <<"s1", k>>

Unfinished(k) == chat_runs[k].pc \in {"running", "resulted"}

\* no two unfinished runs have the same session id
OneRunPerSession ==
  \A i, j \in DOMAIN chat_runs :
    (Unfinished(i) /\ Unfinished(j) /\ chat_runs[i].session_id = chat_runs[j].session_id) => i = j

\* the table has no entry for a run that has finished
NoEntryOfFinished == \A x \in DOMAIN running_sessions : ~Done(running_sessions[x])

\* a call for an identifier whose registered run is unfinished is refused and
\* changes neither the table nor the runs
RefusedWhileRunning ==
  \A id \in ChatIds :
    (ChatSend(id) /\ id \in DOMAIN running_sessions /\ Unfinished(running_sessions[id]))
      => /\ chat_runs'[Len(chat_runs')].pc = "already_running"
         /\ running_sessions' = running_sessions
         /\ \A k \in DOMAIN chat_runs : chat_runs'[k] = chat_runs[k]

\* C40 (as claimed): at any time no two unfinished background runs have the
\* same session id and the table has no entry for a finished run, also after
\* the engine has answered under another identifier; a chat_send for an
\* identifier whose registered run is unfinished returns already_running and
\* starts no run
C40_SingleRun ==
  /\ [](OneRunPerSession /\ NoEntryOfFinished)
  /\ [][RefusedWhileRunning]_vars

\* the part of C40 that holds: a call for an identifier with a registered
\* unfinished run is refused
C40_Refused == [][RefusedWhileRunning]_vars

\* two runs requested for s1 are unfinished under eng-42, the identifier the
\* engine answered both with
C40_Witness ==
  /\ Len(chat_runs) >= 2
  /\ chat_runs[1].requested = "s1" /\ chat_runs[2].requested = "s1"
  /\ chat_runs[1].pc = "resulted" /\ chat_runs[2].pc = "resulted"
  /\ chat_runs[1].session_id = EngineId /\ chat_runs[2].session_id = EngineId
====
